---- MODULE Spec2Model ----
(***************************************************************************)
(* Model of the copy/move tracer of code_examples/oop/rule_of_five:        *)
(* struct Tracer (a name and an owned heap int), its six special member    *)
(* functions, the heap they allocate from, and the trace written to        *)
(* std::cout.                                                              *)
(*                                                                         *)
(* A std::string is a sequence of text pieces, operator+ and operator+=    *)
(* are sequence concatenation.  A trace line is the sequence of pieces the *)
(* chain of operator<< writes.                                             *)
(***************************************************************************)
EXTENDS Integers, Sequences, FiniteSets, TLC

\* ---- bounds -------------------------------------------------------------
NumSlots == 2        \* storage locations a Tracer can be constructed in
MaxOps == 5          \* operations in one run of the free-running client

\* ---- program constants ---------------------------------------------------
InitialValue == 42   \* new int(42)
Null == 0            \* nullptr

Slots == 1 .. NumSlots
Names == {"Alice", "Bob"}
OtherValue == InitialValue + 1
Values == {InitialValue, OtherValue}
Moved == " [moved]"
EmptyString == << >>

VARIABLES
    live,        \* live[s]: an instance exists in storage s
    name,        \* name[s]: Tracer::name
    resource,    \* resource[s]: Tracer::resource, a cell or Null
    heap,        \* heap[c]: the int stored in cell c, one entry per new
    allocated,   \* cells handed out by new and not yet deleted
    freeCount,   \* freeCount[c]: times delete was applied to cell c
    out,         \* lines written to std::cout
    ub,          \* a null pointer has been dereferenced
    crashed,     \* the process was terminated by that dereference
    last,        \* the operation executed last
    nops,        \* operations executed
    pc,          \* Program_01_CopyMove::Run: exercise, statement, phase
    todo,        \* calls of the current statement still to be made
    locals,      \* automatic variables of the exercise, as constructed
    vec,         \* std::vector<Tracer> vec: storage of its elements
    vcap,        \* vec.capacity()
    stdlib,      \* the standard library of the build
    nrvo,        \* the build elides the copy of a named return value
    mark,        \* Len(heap) and Len(out) when the exercise was entered
    prog,        \* main: the example program this main belongs to
    argv1,       \* main: argv[1], or NoArg when argc is 1
    programId,   \* main: int programId
    mpc,         \* main: position in main and in the Run it calls
    ran,         \* main: the programs whose Run was called
    ret,         \* main: the value main returned, NotReturned before
    str,         \* Run: the string objects str1, str2 in scope
    stdin,       \* the characters the process is given on standard input
    cin,         \* std::cin: the characters not yet extracted, the flags
    number,      \* exercise_5_robust_error_handling: int number
    cpc,         \* exercise_5_robust_error_handling: position
    reads,       \* offsets in stdin at which cin >> number was attempted
    err          \* lines written to std::cerr

tracer == <<live, name, resource, heap, allocated, freeCount, out, ub, crashed>>

harness == <<pc, todo, locals, vec, vcap, stdlib, nrvo, mark>>

mainvars == <<prog, argv1, programId, mpc, ran, ret, str>>

cinvars == <<stdin, cin, number, cpc, reads, err>>

vars == <<live, name, resource, heap, allocated, freeCount, out, ub, crashed,
          last, nops, pc, todo, locals, vec, vcap, stdlib, nrvo, mark,
          prog, argv1, programId, mpc, ran, ret, str,
          stdin, cin, number, cpc, reads, err>>

\* ---- no main is running: the Tracer header is exercised on its own ------
NoArg == << >>

NotReturned == 0 - 1

NoMain ==
    /\ prog = "none"
    /\ argv1 = NoArg
    /\ programId = 0
    /\ mpc = [at |-> "none", stmt |-> 0]
    /\ ran = << >>
    /\ ret = NotReturned
    /\ str = << >>

\* ---- no input is read ----------------------------------------------------
Stream(buf, failbit, eofbit) ==
    [buf |-> buf, failbit |-> failbit, eofbit |-> eofbit]

NoCin ==
    /\ stdin = << >>
    /\ cin = Stream(<< >>, FALSE, FALSE)
    /\ number = 0
    /\ cpc = "none"
    /\ reads = << >>
    /\ err = << >>

\* ---- heap ----------------------------------------------------------------
\* new int(v): the cell a new-expression returns is a fresh one
NewCell == Len(heap) + 1

\* delete p: no effect on a null pointer
DeleteAllocated(al, p) == al \ {p}

DeleteCount(fc, p) == IF p = Null THEN fc ELSE [fc EXCEPT ![p] = @ + 1]

\* ---- trace lines ---------------------------------------------------------
LineConstructor(n) == <<"  ">> \o n \o <<": Constructor\n">>

LineDestructor(n) == <<"  ">> \o n \o <<": Destructor\n">>

LineCopyConstructor(n, o) ==
    <<"  ">> \o n \o <<": COPY Constructor from ">> \o o \o <<"\n">>

LineCopyAssignment(n, o) ==
    <<"  ">> \o n \o <<": COPY Assignment from ">> \o o \o <<"\n">>

LineMoveConstructor(n, o) ==
    <<"  ">> \o n \o <<": MOVE Constructor from ">> \o o \o <<"\n">>

LineMoveAssignment(n, o) ==
    <<"  ">> \o n \o <<": MOVE Assignment from ">> \o o \o <<"\n">>

\* ---- std::string ---------------------------------------------------------
\* what a std::string holds after it was the source of a move assignment
\* into an empty string: every standard library leaves it empty
StringAfterMove(s) == EmptyString

\* ---- Tracer --------------------------------------------------------------
\* Tracer(std::string n)
Construct(this, n) ==
    /\ live' = [live EXCEPT ![this] = TRUE]
    /\ name' = [name EXCEPT ![this] = n]
    /\ resource' = [resource EXCEPT ![this] = NewCell]
    /\ heap' = Append(heap, InitialValue)
    /\ allocated' = allocated \cup {NewCell}
    /\ freeCount' = Append(freeCount, 0)
    /\ out' = Append(out, LineConstructor(n))
    /\ UNCHANGED <<ub, crashed>>

\* ~Tracer() without the delete
Destruct_NoDelete(this) ==
    /\ out' = Append(out, LineDestructor(name[this]))
    /\ live' = [live EXCEPT ![this] = FALSE]
    /\ name' = [name EXCEPT ![this] = EmptyString]
    /\ resource' = [resource EXCEPT ![this] = Null]
    /\ UNCHANGED <<heap, allocated, freeCount, ub, crashed>>

\* ~Tracer()
Destruct(this) ==
    /\ out' = Append(out, LineDestructor(name[this]))
    /\ allocated' = DeleteAllocated(allocated, resource[this])
    /\ freeCount' = DeleteCount(freeCount, resource[this])
    /\ live' = [live EXCEPT ![this] = FALSE]
    /\ name' = [name EXCEPT ![this] = EmptyString]
    /\ resource' = [resource EXCEPT ![this] = Null]
    /\ UNCHANGED <<heap, ub, crashed>>

\* the compiler-generated member-wise copy: resource(other.resource)
CopyConstructWith_Shallow(this, other, v) ==
    /\ live' = [live EXCEPT ![this] = TRUE]
    /\ name' = [name EXCEPT ![this] = name[other]]
    /\ resource' = [resource EXCEPT ![this] = resource[other]]
    /\ out' = Append(out, LineCopyConstructor(name[other], name[other]))
    /\ UNCHANGED <<heap, allocated, freeCount>>

\* Tracer(const Tracer& other), once *other.resource has been read as v
CopyConstructWith(this, other, v) ==
    /\ live' = [live EXCEPT ![this] = TRUE]
    /\ name' = [name EXCEPT ![this] = name[other]]
    /\ resource' = [resource EXCEPT ![this] = NewCell]
    /\ heap' = Append(heap, v)
    /\ allocated' = allocated \cup {NewCell}
    /\ freeCount' = Append(freeCount, 0)
    /\ out' = Append(out, LineCopyConstructor(name[other], name[other]))

\* Tracer(const Tracer& other)
CopyConstruct(this, other) ==
    IF resource[other] # Null
    THEN /\ CopyConstructWith(this, other, heap[resource[other]])
         /\ UNCHANGED <<ub, crashed>>
    ELSE \* *other.resource reads through a null pointer
         /\ ub' = TRUE
         /\ \/ /\ crashed' = TRUE
               /\ UNCHANGED <<live, name, resource, heap, allocated,
                              freeCount, out>>
            \/ /\ \E v \in Values : CopyConstructWith(this, other, v)
               /\ UNCHANGED crashed

\* copy assignment that forgets delete resource
CopyAssignWith_NoDelete(this, other, v) ==
    /\ heap' = Append(heap, v)
    /\ allocated' = allocated \cup {NewCell}
    /\ freeCount' = Append(freeCount, 0)
    /\ resource' = [resource EXCEPT ![this] = NewCell]
    /\ name' = [name EXCEPT ![this] = name[other]]
    /\ UNCHANGED live

\* operator=(const Tracer& other) from line 33 on, *other.resource read as v
CopyAssignWith(this, other, v) ==
    /\ heap' = Append(heap, v)
    /\ allocated' = DeleteAllocated(allocated \cup {NewCell}, resource[this])
    /\ freeCount' = DeleteCount(Append(freeCount, 0), resource[this])
    /\ resource' = [resource EXCEPT ![this] = NewCell]
    /\ name' = [name EXCEPT ![this] = name[other]]
    /\ UNCHANGED live

\* copy assignment that deletes resource before it duplicates *other.resource
CopyAssign_DeleteFirst(this, other) ==
    IF this = other
    THEN UNCHANGED <<live, name, resource, heap, allocated, freeCount, out,
                     ub, crashed>>
    ELSE /\ out' = Append(out, LineCopyAssignment(name[this], name[other]))
         /\ IF resource[other] # Null
            THEN /\ CopyAssignWith(this, other, heap[resource[other]])
                 /\ UNCHANGED <<ub, crashed>>
            ELSE /\ ub' = TRUE
                 /\ \/ /\ crashed' = TRUE
                       /\ allocated' = DeleteAllocated(allocated,
                                                       resource[this])
                       /\ freeCount' = DeleteCount(freeCount, resource[this])
                       /\ UNCHANGED <<live, name, resource, heap>>
                    \/ /\ \E v \in Values : CopyAssignWith(this, other, v)
                       /\ UNCHANGED crashed

\* Tracer& operator=(const Tracer& other)
CopyAssign(this, other) ==
    IF this = other
    THEN UNCHANGED <<live, name, resource, heap, allocated, freeCount, out,
                     ub, crashed>>
    ELSE /\ out' = Append(out, LineCopyAssignment(name[this], name[other]))
         /\ IF resource[other] # Null
            THEN /\ CopyAssignWith(this, other, heap[resource[other]])
                 /\ UNCHANGED <<ub, crashed>>
            ELSE \* *other.resource reads through a null pointer
                 /\ ub' = TRUE
                 /\ \/ /\ crashed' = TRUE
                       /\ UNCHANGED <<live, name, resource, heap, allocated,
                                      freeCount>>
                    \/ /\ \E v \in Values : CopyAssignWith(this, other, v)
                       /\ UNCHANGED crashed

\* move constructor that leaves other.resource as it was
MoveConstruct_NoNull(this, other) ==
    /\ live' = [live EXCEPT ![this] = TRUE]
    /\ resource' = [resource EXCEPT ![this] = resource[other]]
    /\ out' = Append(out, LineMoveConstructor(name[other], name[other]))
    /\ name' = [name EXCEPT ![this] = name[other],
                            ![other] = name[other] \o <<Moved>>]
    /\ UNCHANGED <<heap, allocated, freeCount, ub, crashed>>

\* move constructor that copies the name: this->name = other.name
MoveConstruct_CopyName(this, other) ==
    /\ live' = [live EXCEPT ![this] = TRUE]
    /\ resource' = [resource EXCEPT ![this] = resource[other],
                                    ![other] = Null]
    /\ out' = Append(out, LineMoveConstructor(name[other], name[other]))
    /\ name' = [name EXCEPT ![this] = name[other],
                            ![other] = name[other]
                                         \o (name[other] \o <<Moved>>)]
    /\ UNCHANGED <<heap, allocated, freeCount, ub, crashed>>

\* move constructor that leaves other.name empty
MoveConstruct_NoTag(this, other) ==
    /\ live' = [live EXCEPT ![this] = TRUE]
    /\ resource' = [resource EXCEPT ![this] = resource[other],
                                    ![other] = Null]
    /\ out' = Append(out, LineMoveConstructor(name[other], name[other]))
    /\ name' = [name EXCEPT ![this] = name[other],
                            ![other] = StringAfterMove(name[other])]
    /\ UNCHANGED <<heap, allocated, freeCount, ub, crashed>>

\* Tracer(Tracer&& other) noexcept
MoveConstruct(this, other) ==
    LET original_other_name == name[other]
        this_name == name[other]
    IN  /\ live' = [live EXCEPT ![this] = TRUE]
        /\ resource' = [resource EXCEPT ![this] = resource[other],
                                        ![other] = Null]
        /\ out' = Append(out, LineMoveConstructor(this_name,
                                                  original_other_name))
        /\ name' = [name EXCEPT
                      ![this] = this_name,
                      ![other] = StringAfterMove(name[other])
                                   \o (original_other_name \o <<Moved>>)]
        /\ UNCHANGED <<heap, allocated, freeCount, ub, crashed>>

\* move assignment that leaves other.resource as it was
MoveAssign_NoNull(this, other) ==
    IF this = other
    THEN UNCHANGED <<live, name, resource, heap, allocated, freeCount, out,
                     ub, crashed>>
    ELSE /\ out' = Append(out, LineMoveAssignment(name[this], name[other]))
         /\ allocated' = DeleteAllocated(allocated, resource[this])
         /\ freeCount' = DeleteCount(freeCount, resource[this])
         /\ resource' = [resource EXCEPT ![this] = resource[other]]
         /\ name' = [name EXCEPT
                       ![this] = name[other],
                       ![other] = name[other] \o (name[other] \o <<Moved>>)]
         /\ UNCHANGED <<live, heap, ub, crashed>>

\* move assignment without the this == &other test
MoveAssign_NoGuard(this, other) ==
    /\ out' = Append(out, LineMoveAssignment(name[this], name[other]))
    /\ allocated' = DeleteAllocated(allocated, resource[this])
    /\ freeCount' = DeleteCount(freeCount, resource[this])
    /\ resource' = [resource EXCEPT ![this] = resource[other],
                                    ![other] = Null]
    /\ name' = [name EXCEPT
                  ![this] = name[other],
                  ![other] = name[other] \o (name[other] \o <<Moved>>)]
    /\ UNCHANGED <<live, heap, ub, crashed>>

\* move assignment that writes its trace line last
MoveAssign_TraceLast(this, other) ==
    IF this = other
    THEN UNCHANGED <<live, name, resource, heap, allocated, freeCount, out,
                     ub, crashed>>
    ELSE /\ allocated' = DeleteAllocated(allocated, resource[this])
         /\ freeCount' = DeleteCount(freeCount, resource[this])
         /\ resource' = [resource EXCEPT ![this] = resource[other],
                                         ![other] = Null]
         /\ name' = [name EXCEPT
                       ![this] = name[other],
                       ![other] = name[other] \o (name[other] \o <<Moved>>)]
         /\ out' = Append(out, LineMoveAssignment(name'[this], name'[other]))
         /\ UNCHANGED <<live, heap, ub, crashed>>

\* move assignment that takes other.resource before it deletes resource
MoveAssign_StealFirst(this, other) ==
    IF this = other
    THEN UNCHANGED <<live, name, resource, heap, allocated, freeCount, out,
                     ub, crashed>>
    ELSE /\ out' = Append(out, LineMoveAssignment(name[this], name[other]))
         /\ allocated' = DeleteAllocated(allocated, resource[other])
         /\ freeCount' = DeleteCount(freeCount, resource[other])
         /\ resource' = [resource EXCEPT ![this] = resource[other],
                                         ![other] = Null]
         /\ name' = [name EXCEPT
                       ![this] = name[other],
                       ![other] = name[other] \o (name[other] \o <<Moved>>)]
         /\ UNCHANGED <<live, heap, ub, crashed>>

\* Tracer& operator=(Tracer&& other) noexcept
MoveAssign(this, other) ==
    IF this = other
    THEN UNCHANGED <<live, name, resource, heap, allocated, freeCount, out,
                     ub, crashed>>
    ELSE LET original_other_name == name[other]
         IN  /\ out' = Append(out, LineMoveAssignment(name[this],
                                                      name[other]))
             /\ allocated' = DeleteAllocated(allocated, resource[this])
             /\ freeCount' = DeleteCount(freeCount, resource[this])
             /\ resource' = [resource EXCEPT ![this] = resource[other],
                                             ![other] = Null]
             /\ name' = [name EXCEPT
                           ![this] = name[other],
                           ![other] = name[other]
                                        \o (original_other_name \o <<Moved>>)]
             /\ UNCHANGED <<live, heap, ub, crashed>>

\* *t.resource = v, a client writing through the public member
WriteResource(this, v) ==
    /\ heap' = [heap EXCEPT ![resource[this]] = v]
    /\ UNCHANGED <<live, name, resource, allocated, freeCount, out, ub,
                   crashed>>

\* ---- a client applying the operations in any order ----------------------
Step(op, dst, src) ==
    /\ last' = [op |-> op, dst |-> dst, src |-> src]
    /\ nops' = nops + 1
    /\ UNCHANGED <<mainvars, cinvars>>

CanStep == ~crashed /\ nops < MaxOps

DoConstruct ==
    \E s \in DOMAIN live, n \in Names :
        /\ CanStep /\ ~live[s]
        /\ Construct(s, <<n>>)
        /\ Step("Construct", s, s)
        /\ UNCHANGED harness

DoDestruct ==
    \E s \in DOMAIN live :
        /\ CanStep /\ live[s]
        /\ Destruct(s)
        /\ Step("Destruct", s, s)
        /\ UNCHANGED harness

DoCopyConstruct ==
    \E s \in DOMAIN live, o \in DOMAIN live :
        /\ CanStep /\ ~live[s] /\ live[o]
        /\ CopyConstruct(s, o)
        /\ Step("CopyConstruct", s, o)
        /\ UNCHANGED harness

DoCopyAssign ==
    \E s \in DOMAIN live, o \in DOMAIN live :
        /\ CanStep /\ live[s] /\ live[o]
        /\ CopyAssign(s, o)
        /\ Step("CopyAssign", s, o)
        /\ UNCHANGED harness

DoMoveConstruct ==
    \E s \in DOMAIN live, o \in DOMAIN live :
        /\ CanStep /\ ~live[s] /\ live[o]
        /\ MoveConstruct(s, o)
        /\ Step("MoveConstruct", s, o)
        /\ UNCHANGED harness

DoMoveAssign ==
    \E s \in DOMAIN live, o \in DOMAIN live :
        /\ CanStep /\ live[s] /\ live[o]
        /\ MoveAssign(s, o)
        /\ Step("MoveAssign", s, o)
        /\ UNCHANGED harness

DoWriteResource ==
    \E s \in DOMAIN live, v \in Values :
        /\ CanStep /\ live[s] /\ resource[s] # Null
        /\ WriteResource(s, v)
        /\ Step("WriteResource", s, s)
        /\ UNCHANGED harness

\* ---- Program_01_CopyMove ------------------------------------------------
ExSlots == 1 .. 10

\* statements of the exercises
Lit(t) == [lit |-> t, var |-> ""]

NameOf(v) == [lit |-> "", var |-> v]

St(k, var, src, text) ==
    [k |-> k, var |-> var, src |-> src, text |-> text, parts |-> << >>]

Cout(parts) ==
    [k |-> "cout", var |-> "", src |-> "", text |-> "", parts |-> parts]

exercise_1_1 ==
    << Cout(<<Lit("\nExercise 1.1\n")>>),
       St("decl", "t1", "", "t1"),
       St("declCopy", "t2", "t1", ""),
       Cout(<<Lit("...end of scope\n")>>) >>

exercise_1_2 ==
    << Cout(<<Lit("\nExercise 1.2\n")>>),
       St("decl", "t1", "", "t1"),
       St("decl", "t2", "", "t2"),
       St("assign", "t2", "t1", ""),
       Cout(<<Lit("...end of scope\n")>>) >>

exercise_2_1 ==
    << Cout(<<Lit("\nExercise 2.1\n")>>),
       St("declCreate", "t3", "", "temp"),
       Cout(<<Lit("...end of scope\n")>>) >>

exercise_2_2 ==
    << Cout(<<Lit("\nExercise 2.2\n")>>),
       St("declCreateNamed", "t3", "", "temp"),
       Cout(<<Lit("...end of scope\n")>>) >>

\* exercise_2_3 with a copy of t1 after the move
exercise_2_3_CopyAfterMove ==
    << Cout(<<Lit("\nExercise 2.3\n")>>),
       St("decl", "t1", "", "t1"),
       St("declMove", "t4", "t1", ""),
       St("declCopy", "t6", "t1", ""),
       Cout(<<Lit("State of t1: name = '"), NameOf("t1"), Lit("'\n")>>) >>

exercise_2_3 ==
    << Cout(<<Lit("\nExercise 2.3\n")>>),
       St("decl", "t1", "", "t1"),
       St("declMove", "t4", "t1", ""),
       Cout(<<Lit("State of t1: name = '"), NameOf("t1"), Lit("'\n")>>) >>

exercise_2_4 ==
    << Cout(<<Lit("\nExercise 2.4\n")>>),
       St("decl", "t5", "", "t5"),
       St("assignCreate", "t5", "", "temp") >>

exercise_3_1 ==
    << Cout(<<Lit("\nExercise 3.1\n")>>),
       St("declVec", "vec", "", ""),
       St("decl", "t1", "", "t1"),
       Cout(<<Lit("Pushing back t1 (lvalue)...\n")>>),
       St("pushCopy", "vec", "t1", ""),
       Cout(<<Lit("Pushing back temporary (rvalue)...\n")>>),
       St("pushCreate", "vec", "", "temp") >>

exercise_4_1 ==
    << Cout(<<Lit("\nExercise 4.1\n")>>),
       St("declCreate", "t", "", "temp"),
       Cout(<<Lit("...end\n")>>) >>

exercise_5_1 ==
    << Cout(<<Lit("\nExercise 5.1\n")>>),
       St("decl", "a", "", "Alice"),
       St("decl", "b", "", "Bob"),
       Cout(<<Lit("Before move: a = "), NameOf("a"), Lit(", b = "),
               NameOf("b"), Lit("\n")>>),
       St("assignMove", "a", "b", ""),
       Cout(<<Lit("After move:  a = "), NameOf("a"), Lit(", b = "),
               NameOf("b"), Lit("\n")>>) >>

exercise_6_1 ==
    << Cout(<<Lit("\nExercise 6.1\n")>>),
       St("declVec", "vec", "", ""),
       St("reserve", "vec", "", ""),
       Cout(<<Lit("Adding 4 elements...\n")>>),
       St("emplace", "vec", "", "v0"),
       St("emplace", "vec", "", "v1"),
       St("emplace", "vec", "", "v2"),
       St("emplace", "vec", "", "v3"),
       Cout(<<Lit("Forcing reallocation...\n")>>),
       St("emplace", "vec", "", "v4"),
       St("coutVec", "vec", "", "") >>

\* Program_01_CopyMove::Run: the exercises in the order they are called
Run ==
    << exercise_1_1, exercise_1_2, exercise_2_1, exercise_2_2, exercise_2_3,
       exercise_2_4, exercise_3_1, exercise_4_1, exercise_5_1, exercise_6_1 >>

\* vec.reserve(4)
ReserveArg == 4

\* one call a statement makes
Call(op, dst, src, arg) == [op |-> op, dst |-> dst, src |-> src, arg |-> arg]

\* storage for the k-th object a statement creates
Fresh(k) ==
    LET free == {s \in DOMAIN live : ~live[s]}
    IN  CHOOSE s \in free : Cardinality({t \in free : t < s}) = k - 1

FreshFrom(j, n) == [i \in 1 .. n |-> Fresh(j + i - 1)]

SlotOf(v) == locals[CHOOSE i \in DOMAIN locals : locals[i].var = v].slot

Local(v, s, isVec) == [var |-> v, slot |-> s, isVec |-> isVec]

RECURSIVE Flatten(_)
\* the text a chain of operator<< writes
Flatten(parts) ==
    IF parts = << >> THEN << >>
    ELSE LET p == Head(parts)
         IN  (IF p.var = "" THEN <<p.lit>> ELSE name[SlotOf(p.var)])
                 \o Flatten(Tail(parts))

\* std::vector growth: capacity after a reallocation that must hold n
GrowCapacity(cap, n) ==
    LET grown == IF stdlib = "msvc" THEN cap + (cap \div 2) ELSE 2 * cap
    IN  IF grown < n THEN n ELSE grown

\* reallocation that leaves the old buffer's elements undestroyed
Relocate_NoDestroy(old, new) ==
    [k \in 1 .. Len(old) |-> Call("MoveConstruct", new[k], old[k], << >>)]

\* reallocation that copies, as for a move constructor that may throw
Relocate_Copy(old, new) ==
    LET n == Len(old)
    IN  [k \in 1 .. 2 * n |->
            IF k <= n THEN Call("CopyConstruct", new[k], old[k], << >>)
            ELSE Call("Destruct", old[k - n], old[k - n], << >>)]

\* std::vector reallocation: the elements in old move to the storage in new
Relocate(old, new) ==
    LET n == Len(old)
        move(i) == Call("MoveConstruct", new[i], old[i], << >>)
        destroy(i) == Call("Destruct", old[i], old[i], << >>)
    IN  IF stdlib = "libstdc++"
        THEN [k \in 1 .. 2 * n |->
                 IF k % 2 = 1 THEN move((k + 1) \div 2) ELSE destroy(k \div 2)]
        ELSE [k \in 1 .. 2 * n |->
                 IF k <= n THEN move(k) ELSE destroy(k - n)]

Result(ops, ls, v, c) == [ops |-> ops, locals |-> ls, vec |-> v, vcap |-> c]

\* push_back / emplace_back: the new element is created by elem in storage
\* Fresh(j); when the buffer is full it is created in the new buffer first
\* and the old elements are relocated after it
Insert(elem, j, after) ==
    IF Len(vec) < vcap
    THEN Result(<<elem>> \o after, locals, Append(vec, Fresh(j)), vcap)
    ELSE LET new == FreshFrom(j + 1, Len(vec))
         IN  Result(<<elem>> \o Relocate(vec, new) \o after, locals,
                    Append(new, Fresh(j)),
                    GrowCapacity(vcap, Len(vec) + 1))

\* Tracer v = createTracer(text) with the returned temporary materialised
\* and moved into v
DeclCreate_NoElision(st) ==
    Result(<<Call("Construct", Fresh(1), Fresh(1), <<st.text>>),
             Call("MoveConstruct", Fresh(2), Fresh(1), << >>),
             Call("Destruct", Fresh(1), Fresh(1), << >>)>>,
           Append(locals, Local(st.var, Fresh(2), FALSE)), vec, vcap)

\* Tracer v = createTracer(text): return Tracer(name) constructs v itself
DeclCreate(st) ==
    Result(<<Call("Construct", Fresh(1), Fresh(1), <<st.text>>)>>,
           Append(locals, Local(st.var, Fresh(1), FALSE)), vec, vcap)

\* the calls statement st makes, and the variables it declares
Expand(st) ==
    CASE st.k = "cout" ->
           Result(<<Call("Cout", 0, 0, Flatten(st.parts))>>, locals, vec, vcap)
      [] st.k = "coutVec" ->
           Result(<<Call("Cout", 0, 0,
                         <<"Size of vector: ", ToString(Len(vec)),
                           ", capacity of vector: ", ToString(vcap), "\n">>)>>,
                  locals, vec, vcap)
      [] st.k = "decl" ->
           Result(<<Call("Construct", Fresh(1), Fresh(1), <<st.text>>)>>,
                  Append(locals, Local(st.var, Fresh(1), FALSE)), vec, vcap)
      [] st.k = "declCreate" -> DeclCreate(st)
      [] st.k = "declCreateNamed" ->
           IF nrvo
           THEN Result(<<Call("Construct", Fresh(1), Fresh(1), <<st.text>>)>>,
                       Append(locals, Local(st.var, Fresh(1), FALSE)),
                       vec, vcap)
           ELSE Result(<<Call("Construct", Fresh(1), Fresh(1), <<st.text>>),
                         Call("MoveConstruct", Fresh(2), Fresh(1), << >>),
                         Call("Destruct", Fresh(1), Fresh(1), << >>)>>,
                       Append(locals, Local(st.var, Fresh(2), FALSE)),
                       vec, vcap)
      [] st.k = "declCopy" ->
           Result(<<Call("CopyConstruct", Fresh(1), SlotOf(st.src), << >>)>>,
                  Append(locals, Local(st.var, Fresh(1), FALSE)), vec, vcap)
      [] st.k = "declMove" ->
           Result(<<Call("MoveConstruct", Fresh(1), SlotOf(st.src), << >>)>>,
                  Append(locals, Local(st.var, Fresh(1), FALSE)), vec, vcap)
      [] st.k = "assign" ->
           Result(<<Call("CopyAssign", SlotOf(st.var), SlotOf(st.src), << >>)>>,
                  locals, vec, vcap)
      [] st.k = "assignMove" ->
           Result(<<Call("MoveAssign", SlotOf(st.var), SlotOf(st.src), << >>)>>,
                  locals, vec, vcap)
      [] st.k = "assignCreate" ->
           Result(<<Call("Construct", Fresh(1), Fresh(1), <<st.text>>),
                    Call("MoveAssign", SlotOf(st.var), Fresh(1), << >>),
                    Call("Destruct", Fresh(1), Fresh(1), << >>)>>,
                  locals, vec, vcap)
      [] st.k = "declVec" ->
           Result(<<Call("Skip", 0, 0, << >>)>>,
                  Append(locals, Local(st.var, 0, TRUE)), << >>, 0)
      [] st.k = "reserve" ->
           IF ReserveArg <= vcap
           THEN Result(<<Call("Skip", 0, 0, << >>)>>, locals, vec, vcap)
           ELSE LET new == FreshFrom(1, Len(vec))
                IN  Result(<<Call("Skip", 0, 0, << >>)>> \o Relocate(vec, new),
                           locals, new, ReserveArg)
      [] st.k = "pushCopy" ->
           Insert(Call("CopyConstruct", Fresh(1), SlotOf(st.src), << >>), 1,
                  << >>)
      [] st.k = "pushCreate" ->
           LET r == Insert(Call("MoveConstruct", Fresh(2), Fresh(1), << >>), 2,
                           <<Call("Destruct", Fresh(1), Fresh(1), << >>)>>)
           IN  Result(<<Call("Construct", Fresh(1), Fresh(1), <<st.text>>)>>
                          \o r.ops, r.locals, r.vec, r.vcap)
      [] st.k = "emplace" ->
           Insert(Call("Construct", Fresh(1), Fresh(1), <<st.text>>), 1, << >>)

RECURSIVE ScopeExit_Forward(_)
\* automatic variables destroyed in the order of their construction
ScopeExit_Forward(ls) ==
    IF ls = << >> THEN << >>
    ELSE LET l == Head(ls)
         IN  (IF l.isVec
              THEN [i \in 1 .. Len(vec) |->
                       Call("Destruct", vec[i], vec[i], << >>)]
              ELSE <<Call("Destruct", l.slot, l.slot, << >>)>>)
                 \o ScopeExit_Forward(Tail(ls))

RECURSIVE ScopeExit(_)
\* the closing brace of an exercise: the automatic variables are destroyed
\* in the reverse order of their construction, a vector destroying its
\* elements first to last
ScopeExit(ls) ==
    IF ls = << >> THEN << >>
    ELSE LET l == ls[Len(ls)]
         IN  (IF l.isVec
              THEN [i \in 1 .. Len(vec) |->
                       Call("Destruct", vec[i], vec[i], << >>)]
              ELSE <<Call("Destruct", l.slot, l.slot, << >>)>>)
                 \o ScopeExit(SubSeq(ls, 1, Len(ls) - 1))

InBody == pc.phase = "body" /\ pc.ex \in DOMAIN Run

\* the next statement of the exercise starts
ExStatement ==
    /\ InBody /\ todo = << >> /\ pc.stmt <= Len(Run[pc.ex])
    /\ LET r == Expand(Run[pc.ex][pc.stmt])
       IN  /\ todo' = r.ops
           /\ locals' = r.locals
           /\ vec' = r.vec
           /\ vcap' = r.vcap
    /\ pc' = [pc EXCEPT !.stmt = @ + 1]
    /\ UNCHANGED <<tracer, last, nops, stdlib, nrvo, mark, mainvars,
                   cinvars>>

\* the exercise reaches its closing brace
ExScopeExit ==
    /\ InBody /\ todo = << >> /\ pc.stmt > Len(Run[pc.ex])
    /\ todo' = ScopeExit(locals)
    /\ pc' = [pc EXCEPT !.phase = "exit"]
    /\ UNCHANGED <<tracer, last, nops, locals, vec, vcap, stdlib, nrvo, mark,
                   mainvars, cinvars>>

\* the exercise returns to Run, which calls the next one
ExReturn ==
    /\ pc.phase = "exit" /\ todo = << >>
    /\ pc' = IF pc.ex < Len(Run)
             THEN [ex |-> pc.ex + 1, stmt |-> 1, phase |-> "body"]
             ELSE [ex |-> pc.ex, stmt |-> pc.stmt, phase |-> "done"]
    /\ locals' = << >>
    /\ vec' = << >>
    /\ vcap' = 0
    /\ mark' = [heap |-> Len(heap), out |-> Len(out)]
    /\ UNCHANGED <<tracer, last, nops, todo, stdlib, nrvo, mainvars,
                   cinvars>>

\* the next call of the current statement
ExCall(op) ==
    /\ todo # << >> /\ Head(todo).op = op
    /\ todo' = Tail(todo)
    /\ Step(op, Head(todo).dst, Head(todo).src)
    /\ UNCHANGED <<pc, locals, vec, vcap, stdlib, nrvo, mark>>

ExCout ==
    /\ ExCall("Cout")
    /\ out' = Append(out, Head(todo).arg)
    /\ UNCHANGED <<live, name, resource, heap, allocated, freeCount, ub,
                   crashed>>

ExSkip == ExCall("Skip") /\ UNCHANGED tracer

ExConstruct == ExCall("Construct") /\ Construct(Head(todo).dst, Head(todo).arg)

ExDestruct == ExCall("Destruct") /\ Destruct(Head(todo).dst)

ExCopyConstruct ==
    ExCall("CopyConstruct") /\ CopyConstruct(Head(todo).dst, Head(todo).src)

ExCopyAssign ==
    ExCall("CopyAssign") /\ CopyAssign(Head(todo).dst, Head(todo).src)

ExMoveConstruct ==
    ExCall("MoveConstruct") /\ MoveConstruct(Head(todo).dst, Head(todo).src)

ExMoveAssign ==
    ExCall("MoveAssign") /\ MoveAssign(Head(todo).dst, Head(todo).src)

ExInit ==
    /\ live = [s \in ExSlots |-> FALSE]
    /\ name = [s \in ExSlots |-> EmptyString]
    /\ resource = [s \in ExSlots |-> Null]
    /\ heap = << >>
    /\ allocated = {}
    /\ freeCount = << >>
    /\ out = << >>
    /\ ub = FALSE
    /\ crashed = FALSE
    /\ last = [op |-> "none", dst |-> 0, src |-> 0]
    /\ nops = 0
    /\ pc = [ex |-> 1, stmt |-> 1, phase |-> "body"]
    /\ todo = << >>
    /\ locals = << >>
    /\ vec = << >>
    /\ vcap = 0
    /\ stdlib \in {"libstdc++", "msvc"}
    /\ nrvo \in BOOLEAN
    /\ mark = [heap |-> 0, out |-> 0]
    /\ NoMain
    /\ NoCin

ExNext ==
    \/ ExStatement
    \/ ExScopeExit
    \/ ExReturn
    \/ ExCout
    \/ ExSkip
    \/ ExConstruct
    \/ ExDestruct
    \/ ExCopyConstruct
    \/ ExCopyAssign
    \/ ExMoveConstruct
    \/ ExMoveAssign

SpecEx == ExInit /\ [][ExNext]_vars

\* one thread of control: a call that can be made next is made
SpecExFair == SpecEx /\ WF_vars(ExNext)

Init ==
    /\ live = [s \in Slots |-> FALSE]
    /\ name = [s \in Slots |-> EmptyString]
    /\ resource = [s \in Slots |-> Null]
    /\ heap = << >>
    /\ allocated = {}
    /\ freeCount = << >>
    /\ out = << >>
    /\ ub = FALSE
    /\ crashed = FALSE
    /\ last = [op |-> "none", dst |-> 0, src |-> 0]
    /\ nops = 0
    /\ pc = [ex |-> 0, stmt |-> 0, phase |-> "none"]
    /\ todo = << >>
    /\ locals = << >>
    /\ vec = << >>
    /\ vcap = 0
    /\ stdlib = "libstdc++"
    /\ nrvo = TRUE
    /\ mark = [heap |-> 0, out |-> 0]
    /\ NoMain
    /\ NoCin

Next ==
    \/ DoConstruct
    \/ DoDestruct
    \/ DoCopyConstruct
    \/ DoCopyAssign
    \/ DoMoveConstruct
    \/ DoMoveAssign
    \/ DoWriteResource

Spec == Init /\ [][Next]_vars

TypeOK ==
    /\ live \in [DOMAIN live -> BOOLEAN]
    /\ \A s \in DOMAIN live : resource[s] \in {Null} \cup (1 .. Len(heap))
    /\ allocated \subseteq 1 .. Len(heap)
    /\ Len(freeCount) = Len(heap)

\* ---- main of the example programs ---------------------------------------
MaxArgLen == 2       \* characters in argv[1]

\* the mains: the initial programId and the cases of the switch
Mains ==
    [ shallow_vs_deep_copy |->
          [initial |-> 1,
           cases |-> <<"Program_01_Naive_String", "Program_02_Better_String">>],
      io_streams |->
          [initial |-> 3,
           cases |-> <<"Program_01_Cout", "Program_02_Cin", "Program_03_Cerr",
                       "Program_04_Clog">>],
      std_format |->
          [initial |-> 1,
           cases |-> <<"Program_01_Basics", "Program_02_Custom_Formater",
                       "Program_03_Custom_Formater_Parse">>],
      std_format_locales |->
          [initial |-> 4,
           cases |-> <<"Program_01_Basics", "Program_02_CustomFormatter",
                       "Program_03_Custom_Formater_Parse",
                       "Program_04_Locales">>] ]

Digits == <<"0", "1", "2", "3", "4", "5", "6", "7", "8", "9">>

IsDigit(c) == \E d \in DOMAIN Digits : Digits[d] = c

DigitValue(c) == (CHOOSE d \in DOMAIN Digits : Digits[d] = c) - 1

ArgChars == {"0", "1", "2", "5", "-", "x"}

ArgStrings == UNION {[1 .. n -> ArgChars] : n \in 0 .. MaxArgLen}

RECURSIVE AtoiDigits(_, _)
AtoiDigits(s, acc) ==
    IF s = << >> \/ ~IsDigit(Head(s)) THEN acc
    ELSE AtoiDigits(Tail(s), 10 * acc + DigitValue(Head(s)))

\* std::atoi: an optional sign, then the leading digits; 0 when there is none
Atoi(s) ==
    IF s # << >> /\ Head(s) = "-" THEN 0 - AtoiDigits(Tail(s), 0)
    ELSE AtoiDigits(s, 0)

LineRunning(id) == <<"Running program ", ToString(id), "...", "\n">>

\* ---- NaiveString, BetterString -------------------------------------------
Nul == ""                \* the terminator of a C string
Uninitialized == "?"     \* a char of new char[n] never written

RECURSIVE CStr(_)
\* the characters of a buffer before its terminator: what operator<< writes
CStr(buf) ==
    IF buf = << >> \/ Head(buf) = Nul THEN << >>
    ELSE <<Head(buf)>> \o CStr(Tail(buf))

\* std::strlen
StrLen(text) == Len(CStr(text))

\* new char[size] followed by std::strcpy(m_data, src)
StrCpy(size, src) ==
    [i \in 1 .. size |->
        IF i <= StrLen(src) THEN src[i]
        ELSE IF i = StrLen(src) + 1 THEN Nul ELSE Uninitialized]

Hello == <<"H", "e", "l", "l", "o", Nul>>

Object(data, size) == [m_data |-> data, m_size |-> size]

InScope(v) == v \in DOMAIN str

Declare(v, obj) == [w \in DOMAIN str \cup {v} |-> IF w = v THEN obj ELSE str[w]]

Leave(v) == [w \in DOMAIN str \ {v} |-> str[w]]

LineConstructorCalled(text) ==
    <<"Constructor called for '">> \o CStr(text) \o <<"'\n">>

LineDestructorCalled(text) ==
    <<"Destructor called for '">> \o text \o <<"'\n">>

\* NaiveString(const char*), BetterString(const char*)
StringConstruct(v, initial_data) ==
    /\ out' = Append(out, LineConstructorCalled(initial_data))
    /\ str' = Declare(v, Object(NewCell, StrLen(initial_data) + 1))
    /\ heap' = Append(heap, StrCpy(StrLen(initial_data) + 1, initial_data))
    /\ allocated' = allocated \cup {NewCell}
    /\ freeCount' = Append(freeCount, 0)
    /\ UNCHANGED <<ub, crashed>>

\* a BetterString copy constructor that copies the pointer
BetterCopyConstruct_Shallow(v, other) ==
    /\ out' = Append(out, <<"Deep copy constructor called.\n">>)
    /\ str' = Declare(v, Object(str[other].m_data, str[other].m_size))
    /\ UNCHANGED <<heap, allocated, freeCount, ub, crashed>>

\* BetterString(const BetterString& other)
BetterCopyConstruct(v, other) ==
    /\ out' = Append(out, <<"Deep copy constructor called.\n">>)
    /\ str' = Declare(v, Object(NewCell, str[other].m_size))
    /\ heap' = Append(heap, StrCpy(str[other].m_size, heap[str[other].m_data]))
    /\ allocated' = allocated \cup {NewCell}
    /\ freeCount' = Append(freeCount, 0)
    /\ UNCHANGED <<ub, crashed>>

\* a NaiveString copy constructor that copies the buffer
NaiveCopyConstruct_Deep(v, other) ==
    /\ str' = Declare(v, Object(NewCell, str[other].m_size))
    /\ heap' = Append(heap, StrCpy(str[other].m_size, heap[str[other].m_data]))
    /\ allocated' = allocated \cup {NewCell}
    /\ freeCount' = Append(freeCount, 0)
    /\ UNCHANGED <<out, ub, crashed>>

\* the copy constructor the compiler generates for NaiveString
NaiveCopyConstruct(v, other) ==
    /\ str' = Declare(v, Object(str[other].m_data, str[other].m_size))
    /\ UNCHANGED <<out, heap, allocated, freeCount, ub, crashed>>

\* ~NaiveString(), ~BetterString() without the delete[]
StringDestruct_NoDelete(v) ==
    /\ out' = Append(out, LineDestructorCalled(CStr(heap[str[v].m_data])))
    /\ str' = Leave(v)
    /\ UNCHANGED <<heap, allocated, freeCount, ub, crashed>>

\* ~NaiveString(), ~BetterString()
StringDestruct(v) ==
    LET p == str[v].m_data
        freed == [freeCount EXCEPT ![p] = @ + 1]
    IN  IF p \in allocated
        THEN /\ out' = Append(out, LineDestructorCalled(CStr(heap[p])))
             /\ allocated' = allocated \ {p}
             /\ freeCount' = freed
             /\ str' = Leave(v)
             /\ UNCHANGED <<heap, ub, crashed>>
        ELSE \* m_data points to a buffer that was deleted: it is read for
             \* the trace line and then deleted a second time
             /\ ub' = TRUE
             /\ UNCHANGED <<heap, allocated>>
             /\ \/ \* the read is trapped
                   /\ crashed' = TRUE
                   /\ UNCHANGED <<out, freeCount, str>>
                \/ \E text \in {CStr(heap[p]), <<Uninitialized>>} :
                       /\ out' = Append(out, LineDestructorCalled(text))
                       /\ freeCount' = freed
                       /\ \/ \* the allocator aborts on the second delete[]
                             crashed' = TRUE /\ UNCHANGED str
                          \/ crashed' = FALSE /\ str' = Leave(v)

\* std::cout << label; s.print();
StringShow(label, v) ==
    /\ out' = Append(out, <<label>> \o CStr(heap[str[v].m_data]) \o <<"\n">>)
    /\ UNCHANGED <<str, heap, allocated, freeCount, ub, crashed>>

\* s.m_data[i] = c
StringWrite(v, i, c) ==
    /\ heap' = [heap EXCEPT ![str[v].m_data][i + 1] = c]
    /\ UNCHANGED <<str, out, allocated, freeCount, ub, crashed>>

Do(k, v, src, text) == [k |-> k, v |-> v, src |-> src, text |-> text]

\* Program_01_Naive_String::Run, Program_02_Better_String::Run: the
\* statements, then the destructors of the closing brace
RunOf ==
    [ Program_01_Naive_String |->
        << Do("construct", "str1", "", Hello),
           Do("cout", "", "", <<"Copying str1 to str2...\n">>),
           Do("copy", "str2", "str1", << >>),
           Do("show", "str1", "", <<"str1: ">>),
           Do("show", "str2", "", <<"str2: ">>),
           Do("write", "str2", "", <<"J">>),
           Do("cout", "", "", <<"\nAfter modifying str2:\n">>),
           Do("show", "str1", "", <<"str1: ">>),
           Do("show", "str2", "", <<"str2: ">>),
           Do("cout", "", "",
              <<"\nExiting main. Destructors will be called.\n">>),
           Do("destruct", "str2", "", << >>),
           Do("destruct", "str1", "", << >>) >>,
      Program_02_Better_String |->
        << Do("construct", "str1", "", Hello),
           Do("copy", "str2", "str1", << >>),
           Do("show", "str1", "", <<"str1: ">>),
           Do("show", "str2", "", <<"str2: ">>),
           Do("write", "str2", "", <<"J">>),
           Do("cout", "", "", <<"\nAfter modifying str2:\n">>),
           Do("show", "str1", "", <<"str1: ">>),
           Do("show", "str2", "", <<"str2: ">>),
           Do("cout", "", "",
              <<"\nExiting main. Destructors will be called.\n">>),
           Do("destruct", "str2", "", << >>),
           Do("destruct", "str1", "", << >>) >> ]

Modelled(program) == program \in DOMAIN RunOf

\* the program whose Run main is executing
Running == ran[Len(ran)]

NotMain == <<live, name, resource, last, nops, harness, cinvars>>

\* if (argc > 1) programId = std::atoi(argv[1]);
MainParse ==
    /\ mpc.at = "start"
    /\ programId' = IF argv1 # NoArg THEN Atoi(argv1[1]) ELSE programId
    /\ mpc' = [mpc EXCEPT !.at = "announce"]
    /\ UNCHANGED <<NotMain, heap, allocated, freeCount, out, ub, crashed,
                   prog, argv1, ran, ret, str>>

\* std::cout << std::format("Running program {}...", programId) << std::endl
MainAnnounce ==
    /\ mpc.at = "announce"
    /\ out' = Append(out, LineRunning(programId))
    /\ mpc' = [mpc EXCEPT !.at = "switch"]
    /\ UNCHANGED <<NotMain, heap, allocated, freeCount, ub, crashed,
                   prog, argv1, programId, ran, ret, str>>

\* a switch with a default label that runs the first program
MainSwitch_Default ==
    /\ mpc.at = "switch"
    /\ LET id == IF programId \in DOMAIN Mains[prog].cases
                 THEN programId ELSE 1
       IN  /\ ran' = Append(ran, Mains[prog].cases[id])
           /\ mpc' = [at |-> "run", stmt |-> 1]
    /\ UNCHANGED <<NotMain, heap, allocated, freeCount, out, ub, crashed,
                   prog, argv1, programId, ret, str>>

\* switch (programId): the matching case, or past the switch
MainSwitch ==
    /\ mpc.at = "switch"
    /\ IF programId \in DOMAIN Mains[prog].cases
       THEN /\ ran' = Append(ran, Mains[prog].cases[programId])
            /\ mpc' = [at |-> "run", stmt |-> 1]
       ELSE /\ ran' = ran
            /\ mpc' = [mpc EXCEPT !.at = "return"]
    /\ UNCHANGED <<NotMain, heap, allocated, freeCount, out, ub, crashed,
                   prog, argv1, programId, ret, str>>

\* programN.Run() of a program whose statements are not modelled; break
MainRun ==
    /\ mpc.at = "run" /\ ~Modelled(Running)
    /\ mpc' = [at |-> "return", stmt |-> 0]
    /\ UNCHANGED <<NotMain, heap, allocated, freeCount, out, ub, crashed,
                   prog, argv1, programId, ran, ret, str>>

\* return 0;
MainReturn ==
    /\ mpc.at = "return"
    /\ ret' = 0
    /\ mpc' = [mpc EXCEPT !.at = "done"]
    /\ UNCHANGED <<NotMain, heap, allocated, freeCount, out, ub, crashed,
                   prog, argv1, programId, ran, str>>

\* the statement of Run that is executed next
AtStatement(k) ==
    /\ mpc.at = "run" /\ Modelled(Running) /\ ~crashed
    /\ mpc.stmt <= Len(RunOf[Running])
    /\ RunOf[Running][mpc.stmt].k = k

Current == RunOf[Running][mpc.stmt]

\* the statement is done unless the process was terminated in it
Advance ==
    /\ mpc' = IF crashed' THEN mpc ELSE [mpc EXCEPT !.stmt = @ + 1]
    /\ UNCHANGED <<NotMain, prog, argv1, programId, ran, ret>>

RunConstruct ==
    AtStatement("construct") /\ StringConstruct(Current.v, Current.text)
        /\ Advance

RunCopy ==
    /\ AtStatement("copy")
    /\ IF Running = "Program_01_Naive_String"
       THEN NaiveCopyConstruct(Current.v, Current.src)
       ELSE BetterCopyConstruct(Current.v, Current.src)
    /\ Advance

RunCout ==
    /\ AtStatement("cout")
    /\ out' = Append(out, Current.text)
    /\ UNCHANGED <<str, heap, allocated, freeCount, ub, crashed>>
    /\ Advance

RunShow ==
    AtStatement("show") /\ StringShow(Current.text[1], Current.v) /\ Advance

RunWrite ==
    AtStatement("write") /\ StringWrite(Current.v, 0, Current.text[1])
        /\ Advance

RunDestruct == AtStatement("destruct") /\ StringDestruct(Current.v) /\ Advance

\* Run returns; break
RunReturn ==
    /\ mpc.at = "run" /\ Modelled(Running) /\ ~crashed
    /\ mpc.stmt > Len(RunOf[Running])
    /\ mpc' = [at |-> "return", stmt |-> 0]
    /\ UNCHANGED <<NotMain, heap, allocated, freeCount, out, ub, crashed,
                   prog, argv1, programId, ran, ret, str>>

MainInit ==
    /\ prog \in DOMAIN Mains
    /\ argv1 \in {NoArg} \cup {<<a>> : a \in ArgStrings}
    /\ programId = Mains[prog].initial
    /\ mpc = [at |-> "start", stmt |-> 0]
    /\ ran = << >>
    /\ ret = NotReturned
    /\ str = << >>
    /\ live = << >>
    /\ name = << >>
    /\ resource = << >>
    /\ heap = << >>
    /\ allocated = {}
    /\ freeCount = << >>
    /\ out = << >>
    /\ ub = FALSE
    /\ crashed = FALSE
    /\ last = [op |-> "none", dst |-> 0, src |-> 0]
    /\ nops = 0
    /\ pc = [ex |-> 0, stmt |-> 0, phase |-> "none"]
    /\ todo = << >>
    /\ locals = << >>
    /\ vec = << >>
    /\ vcap = 0
    /\ stdlib = "libstdc++"
    /\ nrvo = TRUE
    /\ mark = [heap |-> 0, out |-> 0]
    /\ NoCin

MainNext ==
    \/ MainParse
    \/ MainAnnounce
    \/ MainSwitch
    \/ MainRun
    \/ MainReturn
    \/ RunConstruct
    \/ RunCopy
    \/ RunCout
    \/ RunShow
    \/ RunWrite
    \/ RunDestruct
    \/ RunReturn

SpecMain == MainInit /\ [][MainNext]_vars

\* ---- the Tracer that has only a name -------------------------------------
NameOnlyFrame ==
    UNCHANGED <<resource, heap, allocated, freeCount, ub, crashed, harness>>

\* Tracer(std::string n)
NameOnlyConstruct(s, n) ==
    /\ live' = [live EXCEPT ![s] = TRUE]
    /\ name' = [name EXCEPT ![s] = n]
    /\ out' = Append(out, <<"  ">> \o n \o <<": Constructor\n">>)

\* ~Tracer()
NameOnlyDestruct(s) ==
    /\ out' = Append(out, <<"  ">> \o name[s] \o <<": Destructor\n">>)
    /\ live' = [live EXCEPT ![s] = FALSE]
    /\ UNCHANGED name

\* Tracer(const Tracer& other)
NameOnlyCopyConstruct(s, other) ==
    /\ live' = [live EXCEPT ![s] = TRUE]
    /\ name' = [name EXCEPT ![s] = name[other]]
    /\ out' = Append(out, <<"  ">> \o name[other]
                              \o <<": COPY CONSTRUCTOR from ">>
                              \o name[other] \o <<"\n">>)

\* Tracer& operator=(const Tracer& other)
NameOnlyCopyAssign(s, other) ==
    /\ out' = Append(out, <<"  ">> \o name[s] \o <<": COPY ASSIGNMENT from ">>
                              \o name[other] \o <<"\n">>)
    /\ name' = [name EXCEPT ![s] = name[other]]
    /\ UNCHANGED live

\* Tracer(Tracer&& other)
NameOnlyMoveConstruct(s, other) ==
    /\ out' = Append(out, <<"  ">> \o name[other]
                              \o <<": MOVE CONSTRUCTOR (into a new object)\n">>)
    /\ live' = [live EXCEPT ![s] = TRUE]
    /\ name' = [name EXCEPT ![s] = name[other],
                            ![other] = StringAfterMove(name[other])]

\* Tracer& operator=(Tracer&& other); a std::string moved into itself is
\* left as it was or empty, as the library has it
NameOnlyMoveAssign(s, other) ==
    /\ out' = Append(out, <<"  ">> \o name[s] \o <<": MOVE ASSIGNMENT from ">>
                              \o name[other] \o <<"\n">>)
    /\ IF s = other
       THEN \E n \in {name[s], EmptyString} : name' = [name EXCEPT ![s] = n]
       ELSE name' = [name EXCEPT ![s] = name[other],
                                 ![other] = StringAfterMove(name[other])]
    /\ UNCHANGED live

DoNameOnlyConstruct ==
    \E s \in DOMAIN live, n \in Names :
        /\ CanStep /\ ~live[s]
        /\ NameOnlyConstruct(s, <<n>>)
        /\ Step("Construct", s, s)
        /\ NameOnlyFrame

DoNameOnlyDestruct ==
    \E s \in DOMAIN live :
        /\ CanStep /\ live[s]
        /\ NameOnlyDestruct(s)
        /\ Step("Destruct", s, s)
        /\ NameOnlyFrame

DoNameOnlyCopyConstruct ==
    \E s \in DOMAIN live, o \in DOMAIN live :
        /\ CanStep /\ ~live[s] /\ live[o]
        /\ NameOnlyCopyConstruct(s, o)
        /\ Step("CopyConstruct", s, o)
        /\ NameOnlyFrame

DoNameOnlyCopyAssign ==
    \E s \in DOMAIN live, o \in DOMAIN live :
        /\ CanStep /\ live[s] /\ live[o]
        /\ NameOnlyCopyAssign(s, o)
        /\ Step("CopyAssign", s, o)
        /\ NameOnlyFrame

DoNameOnlyMoveConstruct ==
    \E s \in DOMAIN live, o \in DOMAIN live :
        /\ CanStep /\ ~live[s] /\ live[o]
        /\ NameOnlyMoveConstruct(s, o)
        /\ Step("MoveConstruct", s, o)
        /\ NameOnlyFrame

DoNameOnlyMoveAssign ==
    \E s \in DOMAIN live, o \in DOMAIN live :
        /\ CanStep /\ live[s] /\ live[o]
        /\ NameOnlyMoveAssign(s, o)
        /\ Step("MoveAssign", s, o)
        /\ NameOnlyFrame

NameOnlyNext ==
    \/ DoNameOnlyConstruct
    \/ DoNameOnlyDestruct
    \/ DoNameOnlyCopyConstruct
    \/ DoNameOnlyCopyAssign
    \/ DoNameOnlyMoveConstruct
    \/ DoNameOnlyMoveAssign

SpecNameOnly == Init /\ [][NameOnlyNext]_vars

\* ---- Program_02_Cin::exercise_5_robust_error_handling --------------------
MaxInput == 4        \* characters on standard input

\* the attempts and the std::cerr lines that are recorded: more than a
\* loop that ends can make on MaxInput characters
MaxLog == MaxInput + 3

Log(log, entry) == IF Len(log) < MaxLog THEN Append(log, entry) ELSE log

InputChars == {"4", "-", "x", " ", "\n"}

Inputs == UNION {[1 .. n -> InputChars] : n \in 0 .. MaxInput}

IsSpace(c) == c \in {" ", "\n"}

Good(c) == ~c.failbit /\ ~c.eofbit

RECURSIVE SkipWs(_)
\* the sentry of a formatted input function skips leading whitespace
SkipWs(buf) ==
    IF buf # << >> /\ IsSpace(Head(buf)) THEN SkipWs(Tail(buf)) ELSE buf

RECURSIVE LeadingDigits(_)
LeadingDigits(buf) ==
    IF buf # << >> /\ IsDigit(Head(buf))
    THEN <<Head(buf)>> \o LeadingDigits(Tail(buf))
    ELSE << >>

Drop(buf, n) == SubSeq(buf, n + 1, Len(buf))

\* std::cin >> number: the stream afterwards, the value stored in number
\* (the value n it had is kept when the sentry fails), and whether the
\* extraction succeeded
Extract(c, n) ==
    IF ~Good(c)
    THEN [cin |-> Stream(c.buf, TRUE, c.eofbit), number |-> n, ok |-> FALSE]
    ELSE LET b == SkipWs(c.buf)
         IN  IF b = << >>
             THEN [cin |-> Stream(b, TRUE, TRUE), number |-> n, ok |-> FALSE]
             ELSE LET minus == Head(b) = "-"
                      r == IF minus THEN Tail(b) ELSE b
                      d == LeadingDigits(r)
                      rest == Drop(r, Len(d))
                  IN  IF d = << >>
                      THEN [cin |-> Stream(rest, TRUE, rest = << >>),
                            number |-> 0, ok |-> FALSE]
                      ELSE [cin |-> Stream(rest, FALSE, rest = << >>),
                            number |-> IF minus THEN 0 - AtoiDigits(d, 0)
                                       ELSE AtoiDigits(d, 0),
                            ok |-> TRUE]

\* std::cin.clear()
Clear(c) == Stream(c.buf, FALSE, FALSE)

RECURSIVE AfterNewline(_)
\* the characters after the first newline; none when there is no newline
AfterNewline(buf) ==
    IF buf = << >> THEN << >>
    ELSE IF Head(buf) = "\n" THEN Tail(buf) ELSE AfterNewline(Tail(buf))

HasNewline(buf) == \E i \in DOMAIN buf : buf[i] = "\n"

\* an ignore that discards one character
Ignore_OneChar(c) ==
    IF ~Good(c) THEN Stream(c.buf, TRUE, c.eofbit)
    ELSE IF c.buf = << >> THEN Stream(c.buf, FALSE, TRUE)
    ELSE Stream(Tail(c.buf), FALSE, FALSE)

\* std::cin.ignore(std::numeric_limits<std::streamsize>::max(), '\n')
Ignore(c) ==
    IF ~Good(c) THEN Stream(c.buf, TRUE, c.eofbit)
    ELSE Stream(AfterNewline(c.buf), FALSE, ~HasNewline(c.buf))

CinFrame == UNCHANGED <<tracer, last, nops, harness, mainvars>>

\* std::cout << "Enter an integer: "
CinPrompt ==
    /\ cpc = "prompt"
    /\ out' = out \o << <<"\nExercise 5: Robust Error Handling\n">>,
                        <<"Enter an integer: ">> >>
    /\ cpc' = "while"
    /\ UNCHANGED <<live, name, resource, heap, allocated, freeCount, ub,
                   crashed, last, nops, harness, mainvars,
                   stdin, cin, number, reads, err>>

\* while (!(std::cin >> number))
CinWhile ==
    /\ cpc = "while"
    /\ LET r == Extract(cin, number)
       IN  /\ cin' = r.cin
           /\ number' = r.number
           /\ cpc' = IF r.ok THEN "report" ELSE "cerr"
    /\ reads' = Log(reads, Len(stdin) - Len(cin.buf))
    /\ CinFrame
    /\ UNCHANGED <<stdin, err>>

\* std::cerr << "Invalid input. Please enter an integer: "
CinCerr ==
    /\ cpc = "cerr"
    /\ err' = Log(err, <<"Invalid input. Please enter an integer: ">>)
    /\ cpc' = "clear"
    /\ CinFrame
    /\ UNCHANGED <<stdin, cin, number, reads>>

CinClear ==
    /\ cpc = "clear"
    /\ cin' = Clear(cin)
    /\ cpc' = "ignore"
    /\ CinFrame
    /\ UNCHANGED <<stdin, number, reads, err>>

CinIgnore ==
    /\ cpc = "ignore"
    /\ cin' = Ignore(cin)
    /\ cpc' = "while"
    /\ CinFrame
    /\ UNCHANGED <<stdin, number, reads, err>>

\* std::cout << "You entered the valid number: " << number << "\n"
CinReport ==
    /\ cpc = "report"
    /\ out' = Append(out, <<"You entered the valid number: ",
                            ToString(number), "\n">>)
    /\ cpc' = "done"
    /\ UNCHANGED <<live, name, resource, heap, allocated, freeCount, ub,
                   crashed, last, nops, harness, mainvars,
                   stdin, cin, number, reads, err>>

\* values an int that was never assigned may hold
Indeterminate == {0, 7}

\* the stream as the exercises before leave it: good; or failed at
\* characters that are no integer, which are still in front; or at its end
CinInit ==
    /\ stdin \in Inputs
    /\ \E failbit, eofbit \in BOOLEAN :
           /\ cin = Stream(stdin, failbit, eofbit)
           /\ eofbit => stdin = << >>
           /\ failbit => ~Extract(Stream(stdin, FALSE, FALSE), 0).ok
    /\ number \in Indeterminate
    /\ cpc = "prompt"
    /\ reads = << >>
    /\ err = << >>
    /\ live = << >>
    /\ name = << >>
    /\ resource = << >>
    /\ heap = << >>
    /\ allocated = {}
    /\ freeCount = << >>
    /\ out = << >>
    /\ ub = FALSE
    /\ crashed = FALSE
    /\ last = [op |-> "none", dst |-> 0, src |-> 0]
    /\ nops = 0
    /\ pc = [ex |-> 0, stmt |-> 0, phase |-> "none"]
    /\ todo = << >>
    /\ locals = << >>
    /\ vec = << >>
    /\ vcap = 0
    /\ stdlib = "libstdc++"
    /\ nrvo = TRUE
    /\ mark = [heap |-> 0, out |-> 0]
    /\ NoMain

CinNext ==
    \/ CinPrompt
    \/ CinWhile
    \/ CinCerr
    \/ CinClear
    \/ CinIgnore
    \/ CinReport

SpecCin == CinInit /\ [][CinNext]_vars

\* one thread of control: the statement that is next is executed
SpecCinFair == SpecCin /\ WF_vars(CinNext)

\* ---- a client applying the BetterString operations in any order --------
Objects == {"a", "b"}

Texts == {Hello, <<"H", "i", Nul>>}

\* copy assignment without the this == &other test
BetterCopyAssign_NoSelfCheck(v, other) ==
    LET old == str[v].m_data
    IN  /\ out' = Append(out, <<"Deep copy assignment called.\n">>)
        /\ allocated' = (allocated \ {old}) \cup {NewCell}
        /\ freeCount' = Append([freeCount EXCEPT ![old] = @ + 1], 0)
        /\ heap' = Append(heap, StrCpy(str[other].m_size,
                                       heap[str[other].m_data]))
        /\ str' = [str EXCEPT ![v] = Object(NewCell, str[other].m_size)]
        /\ UNCHANGED <<ub, crashed>>

\* BetterString& operator=(const BetterString& other)
BetterCopyAssign(v, other) ==
    LET old == str[v].m_data
    IN  /\ out' = Append(out, <<"Deep copy assignment called.\n">>)
        /\ IF v = other
           THEN UNCHANGED <<str, heap, allocated, freeCount>>
           ELSE /\ allocated' = (allocated \ {old}) \cup {NewCell}
                /\ freeCount' = Append([freeCount EXCEPT ![old] = @ + 1], 0)
                /\ heap' = Append(heap, StrCpy(str[other].m_size,
                                               heap[str[other].m_data]))
                /\ str' = [str EXCEPT
                             ![v] = Object(NewCell, str[other].m_size)]
        /\ UNCHANGED <<ub, crashed>>

BetterFrame ==
    UNCHANGED <<live, name, resource, harness, prog, argv1, programId, mpc,
                ran, ret, cinvars>>

BetterStep(op, dst, src) ==
    /\ last' = [op |-> op, dst |-> dst, src |-> src]
    /\ nops' = nops + 1
    /\ BetterFrame

DoBetterConstruct ==
    \E v \in Objects, t \in Texts :
        /\ CanStep /\ ~InScope(v)
        /\ StringConstruct(v, t)
        /\ BetterStep("Construct", v, v)

DoBetterCopyConstruct ==
    \E v \in Objects, o \in Objects :
        /\ CanStep /\ ~InScope(v) /\ InScope(o)
        /\ BetterCopyConstruct(v, o)
        /\ BetterStep("CopyConstruct", v, o)

DoBetterCopyAssign ==
    \E v \in Objects, o \in Objects :
        /\ CanStep /\ InScope(v) /\ InScope(o)
        /\ BetterCopyAssign(v, o)
        /\ BetterStep("CopyAssign", v, o)

DoBetterWrite ==
    \E v \in Objects :
        /\ CanStep /\ InScope(v)
        /\ StringWrite(v, 0, "J")
        /\ BetterStep("Write", v, v)

DoBetterDestruct ==
    \E v \in Objects :
        /\ CanStep /\ InScope(v)
        /\ StringDestruct(v)
        /\ BetterStep("Destruct", v, v)

BetterInit ==
    /\ str = << >>
    /\ prog = "none"
    /\ argv1 = NoArg
    /\ programId = 0
    /\ mpc = [at |-> "none", stmt |-> 0]
    /\ ran = << >>
    /\ ret = NotReturned
    /\ live = << >>
    /\ name = << >>
    /\ resource = << >>
    /\ heap = << >>
    /\ allocated = {}
    /\ freeCount = << >>
    /\ out = << >>
    /\ ub = FALSE
    /\ crashed = FALSE
    /\ last = [op |-> "none", dst |-> "", src |-> ""]
    /\ nops = 0
    /\ pc = [ex |-> 0, stmt |-> 0, phase |-> "none"]
    /\ todo = << >>
    /\ locals = << >>
    /\ vec = << >>
    /\ vcap = 0
    /\ stdlib = "libstdc++"
    /\ nrvo = TRUE
    /\ mark = [heap |-> 0, out |-> 0]
    /\ NoCin

BetterNext ==
    \/ DoBetterConstruct
    \/ DoBetterCopyConstruct
    \/ DoBetterCopyAssign
    \/ DoBetterWrite
    \/ DoBetterDestruct

SpecBetter == BetterInit /\ [][BetterNext]_vars

\* ---- properties ----------------------------------------------------------
Owns(s) == live[s] /\ resource[s] # Null

HasPiece(line, p) == \E k \in DOMAIN line : line[k] = p

Emitted(p) == \E i \in DOMAIN out : HasPiece(out[i], p)

\* the step just taken was operation op
Did(op) == last'.op = op /\ nops' = nops + 1

IsMove == last.op = "MoveConstruct"
              \/ (last.op = "MoveAssign" /\ last.dst # last.src)

\* C1: no two live instances hold the same non-null resource pointer, and
\* right after a move the source's resource is null
C1_UniqueOwnership ==
    /\ \A s, t \in DOMAIN live :
           (s # t /\ Owns(s) /\ live[t]) => resource[s] # resource[t]
    /\ IsMove => resource[last.src] = Null

C1_Witness ==
    /\ last.op = "MoveAssign" /\ last.dst # last.src
    /\ Owns(last.dst) /\ live[last.src]
    /\ Emitted(": COPY Constructor from ")

\* C2: every heap cell is freed at most once; the destructor of an instance
\* that owns a resource frees exactly that one cell, the destructor of a
\* moved-from instance frees nothing
C2_NoDoubleFree ==
    [][ /\ \A c \in DOMAIN freeCount' : freeCount'[c] <= 1
        /\ Did("Destruct") =>
             LET p == resource[last'.dst]
             IN  IF p # Null
                 THEN /\ p \in allocated
                      /\ allocated' = allocated \ {p}
                      /\ freeCount' = [freeCount EXCEPT ![p] = @ + 1]
                 ELSE /\ allocated' = allocated
                      /\ freeCount' = freeCount ]_vars

C2_Witness ==
    /\ last.op = "Destruct"
    /\ \A s \in DOMAIN live : ~live[s]
    /\ Len(freeCount) >= 2
    /\ \A c \in DOMAIN freeCount : freeCount[c] = 1
    /\ Emitted(Moved)

\* C3: once every constructed instance has been destroyed, every cell ever
\* allocated has been freed; a completed copy-assign or move-assign has
\* freed the cell its target owned
C3_NoLeak ==
    /\ []( (\A s \in DOMAIN live : ~live[s]) =>
              /\ allocated = {}
              /\ \A c \in DOMAIN freeCount : freeCount[c] = 1 )
    /\ [][ ( /\ Did("CopyAssign") \/ Did("MoveAssign")
             /\ last'.dst # last'.src
             /\ ~crashed'
             /\ resource[last'.dst] # Null )
           => /\ resource[last'.dst] \notin allocated'
              /\ freeCount'[resource[last'.dst]] = 1 ]_vars

C3_Witness ==
    /\ \A s \in DOMAIN live : ~live[s]
    /\ Len(heap) >= 3
    /\ Emitted(": COPY Assignment from ")
    /\ ~ub

\* C4: copy-constructing c from an owning a allocates a new cell distinct
\* from a's holding a's value, gives c a's name and leaves a's name, pointer
\* and cell value unchanged; a write through one instance's cell changes the
\* cell of no other live instance
C4_CopyConstruct ==
    [][ /\ (Did("CopyConstruct") /\ resource[last'.src] # Null) =>
             LET a == last'.src
                 c == last'.dst
             IN  /\ resource'[c] \notin DOMAIN heap
                 /\ resource'[c] \in allocated'
                 /\ resource'[c] # resource'[a]
                 /\ heap'[resource'[c]] = heap[resource[a]]
                 /\ name'[c] = name[a]
                 /\ name'[a] = name[a]
                 /\ resource'[a] = resource[a]
                 /\ heap'[resource'[a]] = heap[resource[a]]
        /\ Did("WriteResource") =>
             \A a \in DOMAIN live :
                 (a # last'.dst /\ Owns(a)) =>
                     heap'[resource[a]] = heap[resource[a]] ]_vars

C4_Witness ==
    /\ last.op = "WriteResource"
    /\ Emitted(": COPY Constructor from ")
    /\ ~Emitted(": Destructor\n")
    /\ heap[resource[last.dst]] = OtherValue
    /\ \E a \in DOMAIN live :
           /\ a # last.dst /\ Owns(a)
           /\ name[a] = name[last.dst]
           /\ heap[resource[a]] = InitialValue

\* C5: move-constructing b from a allocates nothing, gives b the pointer a
\* held, nulls a's resource; the destructor of an instance whose resource is
\* null frees no cell
C5_MoveConstruct ==
    [][ /\ Did("MoveConstruct") =>
             LET a == last'.src
                 b == last'.dst
             IN  /\ heap' = heap
                 /\ allocated' = allocated
                 /\ resource'[b] = resource[a]
                 /\ resource'[a] = Null
        /\ (Did("Destruct") /\ resource[last'.dst] = Null) =>
             /\ allocated' = allocated
             /\ freeCount' = freeCount ]_vars

C5_Witness ==
    /\ last.op = "Destruct"
    /\ Emitted(": MOVE Constructor from ")
    /\ ~Emitted(": MOVE Assignment from ")
    /\ out[Len(out)] = LineDestructor(<<"Alice", Moved>>)
    /\ Cardinality(allocated) = 1
    /\ \E b \in DOMAIN live : Owns(b) /\ b # last.dst /\ name[b] = <<"Alice">>

\* C6: a = a and a = std::move(a) change neither a's name, pointer and cell
\* value nor the heap, and write no trace line
C6_SelfAssignment ==
    [][ ( /\ Did("CopyAssign") \/ Did("MoveAssign")
          /\ last'.dst = last'.src )
        => UNCHANGED <<live, name, resource, heap, allocated, freeCount,
                       out, ub, crashed>> ]_vars

C6_Witness ==
    /\ last.op = "MoveAssign"
    /\ last.dst = last.src
    /\ Owns(last.dst)
    /\ Len(out) = nops - 1

\* C7: copy-constructing or copy-assigning from an instance whose resource
\* is null dereferences no null pointer and leaves the target a live instance
C7_CopyFromMovedFrom ==
    ( /\ last.op \in {"CopyConstruct", "CopyAssign"}
      /\ last.dst # last.src
      /\ resource[last.src] = Null )
    => (~ub /\ ~crashed /\ live[last.dst])

C9_MoveAssignName ==
    (last.op = "MoveAssign" /\ last.dst # last.src)
    => name[last.src] = name[last.dst] \o <<Moved>>

\* C10: within an exercise the automatic Tracer variables are destroyed in
\* the reverse order of their construction: a variable is never destroyed
\* while one constructed after it is alive, and in exercise_2_3 the
\* destructor line of t4 comes right before that of t1
C10_DestructorOrder ==
    /\ \A i, j \in DOMAIN locals :
           (i < j /\ ~locals[i].isVec /\ ~locals[j].isVec
                  /\ live[locals[j].slot]) => live[locals[i].slot]
    /\ pc.ex = 5 =>
           \A k \in DOMAIN out :
               out[k] = LineDestructor(<<"t1", Moved>>) =>
                   k > 1 /\ out[k - 1] = LineDestructor(<<"t1">>)

C10_Witness ==
    /\ pc.ex = 5 /\ pc.phase = "exit" /\ todo = << >>
    /\ last.op = "Destruct"
    /\ Len(locals) = 2
    /\ out[Len(out)] = LineDestructor(<<"t1", Moved>>)
\* ---- properties of the exercises ----------------------------------------
\* what the current exercise has written so far
ExOut == SubSeq(out, mark.out + 1, Len(out))

Where(line) == {i \in DOMAIN ExOut : ExOut[i] = line}

Count(p) == Cardinality({i \in DOMAIN ExOut : HasPiece(ExOut[i], p)})

\* the cells the current exercise has allocated
ExCells == (mark.heap + 1) .. Len(heap)

AfterStmt(e, i) ==
    pc.ex = e /\ pc.phase = "body" /\ pc.stmt = i + 1 /\ todo = << >>

AtEnd(e) == pc.ex = e /\ pc.phase = "exit" /\ todo = << >>

AllFreedOnce ==
    allocated = {} /\ \A c \in ExCells : freeCount[c] = 1

\* C11: in exercise_6_1 the fifth emplace_back writes one MOVE Constructor
\* line for each of v0..v3, each followed by the Destructor line of the
\* moved-from old element, and no COPY Constructor line; the vector then
\* holds 5 owning elements, and at scope end each of the 5 cells has been
\* freed once
C11_Reallocation ==
    /\ (pc.ex = 10 /\ pc.stmt <= 10) =>
           Count(": MOVE Constructor from ") = 0
    /\ AfterStmt(10, 10) =>
           /\ Count(": MOVE Constructor from ") = 4
           /\ Count(": COPY Constructor from ") = 0
           /\ Count(": Destructor\n") = 4
           /\ \A v \in {"v0", "v1", "v2", "v3"} :
                  /\ Cardinality(Where(LineMoveConstructor(<<v>>, <<v>>))) = 1
                  /\ Cardinality(Where(LineDestructor(<<v, Moved>>))) = 1
                  /\ \A i \in Where(LineMoveConstructor(<<v>>, <<v>>)),
                        j \in Where(LineDestructor(<<v, Moved>>)) : i < j
           /\ Len(vec) = 5
           /\ \A i \in DOMAIN vec : Owns(vec[i])
           /\ \A i, j \in DOMAIN vec :
                  i # j => resource[vec[i]] # resource[vec[j]]
    /\ AtEnd(10) =>
           /\ Cardinality(ExCells) = 5
           /\ AllFreedOnce
           /\ Count(": COPY Constructor from ") = 0
           /\ Count(": Destructor\n") = 9

C11_Witness ==
    /\ AtEnd(10)
    /\ stdlib = "msvc"
    /\ Count(": MOVE Constructor from ") = 4
    /\ Cardinality(ExCells) = 5
\* the lines exercise_1_1 is to write, the copy announced by the text what
CopyScenario(what) ==
    AtEnd(1) =>
        /\ Len(ExOut) = 6
        /\ ExOut[2] = <<"  ", "t1", ": Constructor\n">>
        /\ ExOut[3] = <<"  ", "t1", what, "t1", "\n">>
        /\ ExOut[4] = <<"...end of scope\n">>
        /\ ExOut[5] = <<"  ", "t1", ": Destructor\n">>
        /\ ExOut[6] = <<"  ", "t1", ": Destructor\n">>
        /\ Cardinality(ExCells) = 2
        /\ AllFreedOnce

\* C12 as stated: exercise_1_1 writes "t1: Constructor", then
\* "t1: COPY CONSTRUCTOR from t1", then after the end-of-scope marker two
\* destructor lines naming t1, and the destructors free two distinct cells
C12_CopyScenarioStated == CopyScenario(": COPY CONSTRUCTOR from ")

\* C12 amended: the same, the second line reading
\* "t1: COPY Constructor from t1"
C12_CopyScenario == CopyScenario(": COPY Constructor from ")

C12_Witness ==
    /\ AtEnd(1)
    /\ Len(ExOut) = 6
    /\ Len(heap) = 2
    /\ freeCount = <<1, 1>>
\* ---- lifecycle of an instance -------------------------------------------
\* the step just taken was a move whose source was s
MovedOutOf(s) ==
    /\ Did("MoveConstruct") \/ Did("MoveAssign")
    /\ last'.src = s
    /\ last'.dst # s

\* the step just taken was assignment op to s from another instance
AssignedTo(op, s) == Did(op) /\ last'.dst = s /\ last'.src # s

\* no step involves an instance that has been destroyed
OnlyLiveTakePart ==
    (nops' = nops + 1) =>
        /\ last'.op \in {"Destruct", "CopyAssign", "MoveAssign",
                         "WriteResource"} => live[last'.dst]
        /\ last'.op \in {"CopyConstruct", "MoveConstruct", "CopyAssign",
                         "MoveAssign"} => live[last'.src]

\* C13 as stated: an owning instance loses its resource only as the source
\* of a move, a null resource stays null until the instance is destroyed,
\* and a destroyed instance takes part in no further operation
C13_LifecycleStated ==
    [][ /\ \A s \in DOMAIN live :
               /\ (Owns(s) /\ live'[s] /\ resource'[s] = Null)
                      => MovedOutOf(s)
               /\ (live[s] /\ resource[s] = Null /\ live'[s])
                      => resource'[s] = Null
        /\ OnlyLiveTakePart ]_vars

\* C13 amended: an owning instance loses its resource only as the source of
\* a move or as the target of a move-assign from a null source; a null
\* resource becomes non-null only in the target of a copy-assign or of a
\* move-assign from an owning source; a destroyed instance takes part in no
\* further operation
C13_Lifecycle ==
    [][ /\ \A s \in DOMAIN live :
               /\ (Owns(s) /\ live'[s] /\ resource'[s] = Null)
                      => \/ MovedOutOf(s)
                         \/ /\ AssignedTo("MoveAssign", s)
                            /\ resource[last'.src] = Null
               /\ (live[s] /\ resource[s] = Null /\ live'[s]
                           /\ resource'[s] # Null)
                      => \/ AssignedTo("CopyAssign", s)
                         \/ /\ AssignedTo("MoveAssign", s)
                            /\ Owns(last'.src)
        /\ OnlyLiveTakePart ]_vars

C13_Witness ==
    /\ last.op = "CopyAssign"
    /\ ~ub
    /\ Owns(last.dst) /\ Owns(last.src)
    /\ out[Len(out)] = LineCopyAssignment(<<"Alice", Moved>>, <<"Alice">>)

\* ---- the mains and the string programs ----------------------------------
Unmatched == programId \notin DOMAIN Mains[prog].cases

NonNumeric(a) == a = << >> \/ (~IsDigit(Head(a)) /\ Head(a) # "-")

\* C14: a selector that matches no case of the switch, the 0 of a
\* non-numeric argument included, makes main call no Run, write nothing but
\* the announcement, fail nowhere and return 0
C14_UnmatchedSelector ==
    /\ (mpc.at # "start" /\ argv1 # NoArg /\ NonNumeric(argv1[1]))
           => programId = 0 /\ Unmatched
    /\ (mpc.at # "start" /\ Unmatched)
           => /\ ran = << >>
              /\ heap = << >> /\ ~ub /\ ~crashed
              /\ mpc.at \in {"announce", "switch", "return", "done"}
              /\ out \in {<< >>, <<LineRunning(programId)>>}
              /\ ret = IF mpc.at = "done" THEN 0 ELSE NotReturned

C14_Witness ==
    /\ mpc.at = "done" /\ ret = 0
    /\ argv1 = << <<"x">> >>
    /\ programId = 0 /\ Unmatched
    /\ ran = << >>
    /\ out = <<LineRunning(0)>>

Jello == <<"J", "e", "l", "l", "o">>

Both == {"str1", "str2"} \subseteq DOMAIN str

RunIs(program) == ran = <<program>>

\* Run is past its statement of kind k, the last one of that kind
Past(k) ==
    \/ mpc.at \in {"return", "done"}
    \/ /\ mpc.at = "run"
       /\ \A i \in DOMAIN RunOf[Running] :
              RunOf[Running][i].k = k => mpc.stmt > i

\* the two lines written after the line "After modifying str2:"
ShownAfter(text1, text2) ==
    \E i \in DOMAIN out :
        /\ out[i] = <<"\nAfter modifying str2:\n">>
        /\ Len(out) >= i + 2
        /\ out[i + 1] = <<"str1: ">> \o text1 \o <<"\n">>
        /\ out[i + 2] = <<"str2: ">> \o text2 \o <<"\n">>

\* C15: after NaiveString str2 = str1 both m_data are one buffer, and the
\* write of 'J' through str2 is seen through str1: both print "Jello"
C15_ShallowAliasing ==
    RunIs("Program_01_Naive_String") =>
        /\ Both => /\ str["str1"].m_data = str["str2"].m_data
                   /\ Len(heap) = 1
        /\ (Both /\ Past("write")) => CStr(heap[str["str1"].m_data]) = Jello
        /\ Past("show") => ShownAfter(Jello, Jello)

C15_Witness ==
    /\ RunIs("Program_01_Naive_String")
    /\ Both /\ Past("show")
    /\ str["str1"].m_data = str["str2"].m_data
    /\ ShownAfter(Jello, Jello)

DestructorLines ==
    Cardinality({i \in DOMAIN out : out[i][1] = "Destructor called for '"})

\* C16: in Program_01_Naive_String::Run every destructor that runs deletes
\* the one buffer there is, so that once both str2 and str1 have run theirs
\* the buffer has been freed twice
C16_DoubleFree ==
    RunIs("Program_01_Naive_String") =>
        /\ Len(heap) <= 1
        /\ \A c \in DOMAIN freeCount : freeCount[c] = DestructorLines
        /\ DestructorLines >= 2 => ub
        /\ Past("destruct") => freeCount = <<2>>

C16_Witness ==
    /\ prog = "shallow_vs_deep_copy" /\ argv1 = NoArg /\ programId = 1
    /\ RunIs("Program_01_Naive_String")
    /\ freeCount = <<2>>
    /\ DestructorLines = 2

\* C17: after BetterString str2 = str1 the two instances have distinct
\* buffers with equal contents; the write through str2 leaves str1's
\* contents as they were; at scope exit each buffer is freed exactly once
C17_DeepCopy ==
    RunIs("Program_02_Better_String") =>
        /\ Both => /\ str["str1"].m_data # str["str2"].m_data
                   /\ {str["str1"].m_data, str["str2"].m_data}
                          \subseteq allocated
                   /\ str["str1"].m_size = str["str2"].m_size
                   /\ CStr(heap[str["str1"].m_data]) = CStr(Hello)
        /\ (Both /\ ~Past("write"))
               => heap[str["str1"].m_data] = heap[str["str2"].m_data]
        /\ (Both /\ Past("write")) => CStr(heap[str["str2"].m_data]) = Jello
        /\ Past("show") => ShownAfter(CStr(Hello), Jello)
        /\ \A c \in DOMAIN freeCount : freeCount[c] <= 1
        /\ ~ub /\ ~crashed
        /\ Past("destruct") => freeCount = <<1, 1>> /\ allocated = {}

C17_Witness ==
    /\ RunIs("Program_02_Better_String")
    /\ mpc.at = "done" /\ ret = 0
    /\ ShownAfter(CStr(Hello), Jello)
    /\ freeCount = <<1, 1>> /\ allocated = {}

\* C18: in exercise_2_1 and exercise_4_1 the Tracer initialised from
\* createTracer writes one Constructor line, no COPY or MOVE Constructor
\* line, and at scope end one Destructor line; one cell is allocated, and
\* freed once
C18_Elision ==
    \A e \in {3, 8} :
        /\ pc.ex = e =>
               /\ Count(": COPY Constructor from ") = 0
               /\ Count(": MOVE Constructor from ") = 0
               /\ Count(": Constructor\n") <= 1
               /\ Cardinality(ExCells) <= 1
        /\ AfterStmt(e, 2) =>
               /\ Where(LineConstructor(<<"temp">>)) = {2}
               /\ Count(": Constructor\n") = 1
               /\ Count(": Destructor\n") = 0
               /\ Cardinality(ExCells) = 1
               /\ allocated = ExCells
        /\ AtEnd(e) =>
               /\ Len(ExOut) = 4
               /\ ExOut[2] = LineConstructor(<<"temp">>)
               /\ ExOut[4] = LineDestructor(<<"temp">>)
               /\ Count(": Constructor\n") = 1
               /\ Count(": Destructor\n") = 1
               /\ Cardinality(ExCells) = 1
               /\ AllFreedOnce

C18_Witness ==
    /\ AtEnd(8)
    /\ ExOut[2] = LineConstructor(<<"temp">>)
    /\ ExOut[4] = LineDestructor(<<"temp">>)
    /\ Count(": MOVE Constructor from ") = 0
    /\ Cardinality(ExCells) = 1
    /\ AllFreedOnce

\* C19: in exercise_3_1 push_back(t1) writes one COPY Constructor line and
\* leaves t1 owning; push_back(createTracer("temp")) writes a MOVE
\* Constructor line for the temporary and one for the stored element, and
\* no COPY Constructor line; the two moved-from instances are destroyed
\* before scope end, then t1 and the two elements: five Destructor lines,
\* each of the three cells freed once
C19_Insertion ==
    /\ AfterStmt(7, 5) =>
           /\ Where(LineCopyConstructor(<<"t1">>, <<"t1">>)) = {4}
           /\ Count(": COPY Constructor from ") = 1
           /\ Count(": MOVE Constructor from ") = 0
           /\ Owns(SlotOf("t1"))
           /\ Len(vec) = 1 /\ Owns(vec[1])
           /\ resource[vec[1]] # resource[SlotOf("t1")]
    /\ AfterStmt(7, 7) =>
           /\ Count(": COPY Constructor from ") = 1
           /\ Count(": MOVE Constructor from ") = 2
           /\ Where(LineMoveConstructor(<<"temp">>, <<"temp">>)) = {7}
           /\ Where(LineMoveConstructor(<<"t1">>, <<"t1">>)) = {8}
           /\ Count(": Destructor\n") = 2
           /\ Where(LineDestructor(<<"t1", Moved>>)) \cup
                  Where(LineDestructor(<<"temp", Moved>>)) = {9, 10}
           /\ Owns(SlotOf("t1"))
           /\ Len(vec) = 2 /\ Owns(vec[1]) /\ Owns(vec[2])
           /\ name[vec[1]] = <<"t1">> /\ name[vec[2]] = <<"temp">>
           /\ Cardinality(allocated) = 3
    /\ AtEnd(7) =>
           /\ Len(ExOut) = 13
           /\ Count(": COPY Constructor from ") = 1
           /\ Count(": MOVE Constructor from ") = 2
           /\ Count(": Destructor\n") = 5
           /\ ExOut[11] = LineDestructor(<<"t1">>)
           /\ ExOut[12] = LineDestructor(<<"t1">>)
           /\ ExOut[13] = LineDestructor(<<"temp">>)
           /\ Cardinality(ExCells) = 3
           /\ AllFreedOnce

C19_Witness ==
    /\ AtEnd(7)
    /\ Count(": Destructor\n") = 5
    /\ Where(LineMoveConstructor(<<"t1">>, <<"t1">>)) = {8}
    /\ Cardinality(ExCells) = 3
    /\ AllFreedOnce

\* C20: in the Tracer that has only a name, a copy assignment or a move
\* assignment of an instance to itself writes no trace line and leaves the
\* name as it was
C20_NameOnlySelfAssignment ==
    [][ ((Did("CopyAssign") \/ Did("MoveAssign")) /\ last'.dst = last'.src)
            => out' = out /\ name' = name ]_vars

\* C21: for distinct a and b with b owning, a = b appends one cell holding
\* b's value, frees a's previous cell once, gives a the new cell and b's
\* name, and leaves b's name, pointer and cell as they were. The new cell is
\* made before the old one is freed: it is another cell than a's previous
\* one, and when the duplication is trapped a's previous cell is not freed
C21_CopyAssignEffect ==
    [][ (Did("CopyAssign") /\ last'.dst # last'.src) =>
          LET a == last'.dst
              b == last'.src
              old == resource[a]
              new == Len(heap) + 1
          IN  /\ Owns(b) =>
                    /\ heap' = Append(heap, heap[resource[b]])
                    /\ resource'[a] = new /\ new # old
                    /\ allocated' = (allocated \cup {new}) \ {old}
                    /\ resource[b] \in allocated'
                    /\ freeCount'[new] = 0
                    /\ \A c \in DOMAIN freeCount :
                           freeCount'[c] =
                               IF c = old THEN 1 ELSE freeCount[c]
                    /\ name'[a] = name[b]
                    /\ name'[b] = name[b]
                    /\ resource'[b] = resource[b]
                    /\ out' = Append(out, LineCopyAssignment(name[a],
                                                             name[b]))
                    /\ ub' = ub /\ crashed' = crashed
              /\ crashed' =>
                    /\ allocated' = allocated
                    /\ freeCount' = freeCount
                    /\ resource' = resource ]_vars

C21_Witness ==
    /\ last.op = "CopyAssign" /\ last.dst # last.src
    /\ ~ub
    /\ Owns(last.dst) /\ Owns(last.src)
    /\ name[last.dst] = <<"Bob">> /\ name[last.src] = <<"Bob">>
    /\ out[Len(out)] = LineCopyAssignment(<<"Alice">>, <<"Bob">>)
    /\ heap[resource[last.dst]] = OtherValue
    /\ \E c \in DOMAIN freeCount : freeCount[c] = 1

\* C22: for distinct a and b, a = std::move(b) frees the cell a owned and
\* not the one it takes, gives a the pointer b held, allocates nothing and
\* leaves b's resource null; the destructor of an instance whose resource is
\* null frees nothing, the destructor of an owning instance frees its cell,
\* which had not been freed before
C22_MoveAssignEffect ==
    [][ /\ (Did("MoveAssign") /\ last'.dst # last'.src) =>
              LET a == last'.dst
                  b == last'.src
                  old == resource[a]
              IN  /\ heap' = heap
                  /\ resource'[a] = resource[b]
                  /\ resource'[b] = Null
                  /\ allocated' = allocated \ {old}
                  /\ resource[b] # Null => resource[b] \in allocated'
                  /\ \A c \in DOMAIN freeCount :
                         freeCount'[c] = IF c = old THEN 1 ELSE freeCount[c]
                  /\ ub' = ub /\ crashed' = crashed
        /\ Did("Destruct") =>
              LET p == resource[last'.dst]
              IN  /\ allocated' = allocated \ {p}
                  /\ \A c \in DOMAIN freeCount :
                         freeCount'[c] = IF c = p THEN 1 ELSE freeCount[c]
                  /\ p = Null => freeCount' = freeCount ]_vars

C22_Witness ==
    /\ last.op = "MoveAssign" /\ last.dst # last.src
    /\ ~ub
    /\ Owns(last.dst)
    /\ live[last.src] /\ resource[last.src] = Null
    /\ Len(heap) = 2
    /\ allocated = {resource[last.dst]}
    /\ \E c \in DOMAIN freeCount : freeCount[c] = 1
    /\ freeCount[resource[last.dst]] = 0

\* C23: every construct, destruct, copy-construct, move-construct and
\* non-self copy-assign and move-assign that returns appends exactly one
\* trace line, after the lines written before it; the line of an assignment
\* names the target by the name it had before and the source by the name
\* it had before; the assignment gives the target the source's name, which
\* the target's destructor line then carries
C23_TraceDiscipline ==
    [][ LET d == last'.dst
            o == last'.src
            appends(line) == out' = Append(out, line)
        IN  /\ Did("Construct") => appends(LineConstructor(name'[d]))
            /\ Did("Destruct") => appends(LineDestructor(name[d]))
            /\ (Did("CopyConstruct") /\ ~crashed') =>
                   appends(LineCopyConstructor(name[o], name[o]))
            /\ Did("MoveConstruct") =>
                   appends(LineMoveConstructor(name[o], name[o]))
            /\ (Did("CopyAssign") /\ d # o /\ ~crashed') =>
                   /\ appends(LineCopyAssignment(name[d], name[o]))
                   /\ name'[d] = name[o]
            /\ (Did("MoveAssign") /\ d # o) =>
                   /\ appends(LineMoveAssignment(name[d], name[o]))
                   /\ name'[d] = name[o]
            /\ Len(out') <= Len(out) + 1
            /\ SubSeq(out', 1, Len(out)) = out ]_vars

C23_Witness ==
    /\ last.op = "Destruct"
    /\ Len(out) = 4
    /\ out[1] = LineConstructor(<<"Alice">>)
    /\ out[2] = LineConstructor(<<"Bob">>)
    /\ out[3] = LineMoveAssignment(<<"Alice">>, <<"Bob">>)
    /\ out[4] = LineDestructor(<<"Bob">>)
    /\ ~live[last.dst]

Headings ==
    << "\nExercise 1.1\n", "\nExercise 1.2\n", "\nExercise 2.1\n",
       "\nExercise 2.2\n", "\nExercise 2.3\n", "\nExercise 2.4\n",
       "\nExercise 3.1\n", "\nExercise 4.1\n", "\nExercise 5.1\n",
       "\nExercise 6.1\n" >>

\* C24: Run starts with exercise 1.1 and goes from each exercise to the
\* next of 1.1, 1.2, 2.1, 2.2, 2.3, 2.4, 3.1, 4.1, 5.1, 6.1 only when it has
\* returned; every exercise reaches its return and Run its end; no copy
\* reads a moved-from source; when an exercise returns every cell allocated
\* during it has been freed once
C24_HarnessCompletes ==
    /\ pc.ex = 1
    /\ [][ pc'.ex # pc.ex => (pc'.ex = pc.ex + 1 /\ AtEnd(pc.ex)) ]_vars
    /\ [][ (Did("CopyConstruct") \/ Did("CopyAssign"))
               => resource[last'.src] # Null ]_vars
    /\ [] /\ ~ub /\ ~crashed
          /\ Len(Run) = Len(Headings)
          /\ (pc.ex \in DOMAIN Run /\ ExOut # << >>)
                 => ExOut[1] = <<Headings[pc.ex]>>
          /\ \A e \in DOMAIN Run :
                 AtEnd(e) => (ExCells # {} /\ AllFreedOnce)
          /\ pc.phase = "done" =>
                 /\ allocated = {}
                 /\ \A c \in DOMAIN freeCount : freeCount[c] = 1
                 /\ \A s \in DOMAIN live : ~live[s]
    /\ \A e \in DOMAIN Run : <>AtEnd(e)
    /\ <>(pc.phase = "done" /\ pc.ex = Len(Run))

C24_Witness ==
    /\ pc.phase = "done" /\ pc.ex = 10
    /\ ~ub
    /\ allocated = {}
    /\ Len(heap) > 10
    /\ \A c \in DOMAIN freeCount : freeCount[c] = 1
    /\ \E i \in DOMAIN out : out[i] = <<Headings[10]>>

\* C25: in every state each non-null resource of a live instance is a cell
\* that is allocated and has never been freed; no step reads a cell that is
\* not allocated, and no step frees a cell that is not allocated
C25_NoDangling ==
    /\ [](\A s \in DOMAIN live :
              Owns(s) => /\ resource[s] \in DOMAIN heap
                         /\ resource[s] \in allocated
                         /\ freeCount[resource[s]] = 0)
    /\ [][ /\ ((Did("CopyConstruct") \/ Did("CopyAssign")
                     \/ Did("WriteResource"))
                  /\ resource[last'.src] # Null)
                 => resource[last'.src] \in allocated
           /\ \A c \in DOMAIN freeCount :
                  freeCount'[c] # freeCount[c]
                      => /\ c \in allocated /\ c \notin allocated'
                         /\ freeCount[c] = 0 /\ freeCount'[c] = 1 ]_vars

C25_Witness ==
    /\ last.op = "CopyAssign" /\ last.dst # last.src
    /\ ~ub
    /\ Owns(last.dst) /\ Owns(last.src)
    /\ Len(heap) = 3
    /\ allocated = {resource[last.dst], resource[last.src]}
    /\ Cardinality(allocated) = 2
    /\ HasPiece(out[Len(out)], Moved)

EndsWithMoved(n) == n # << >> /\ n[Len(n)] = Moved

\* C26: as long as no null pointer has been dereferenced, the name of a
\* live instance ends with " [moved]" exactly when its resource is null
C26_TagOwnership ==
    ~ub => \A s \in DOMAIN live :
               live[s] => (EndsWithMoved(name[s]) <=> resource[s] = Null)

C26_Witness ==
    /\ ~ub
    /\ last.op = "MoveAssign" /\ last.dst # last.src
    /\ live[last.dst] /\ live[last.src]
    /\ resource[last.dst] = Null /\ EndsWithMoved(name[last.dst])
    /\ resource[last.src] = Null /\ EndsWithMoved(name[last.src])

\* ---- the input retry loop -----------------------------------------------
RECURSIVE FirstLine(_)
FirstLine(s) ==
    IF s = << >> \/ Head(s) = "\n" THEN << >>
    ELSE <<Head(s)>> \o FirstLine(Tail(s))

\* the line starts, after blanks, with an integer
IntegerLine(l) ==
    LET t == SkipWs(l)
    IN  /\ t # << >>
        /\ \/ IsDigit(t[1])
           \/ t[1] = "-" /\ Len(t) >= 2 /\ IsDigit(t[2])

RECURSIVE FirstInteger(_)
\* the integer at the start of the first line of s that starts with one
FirstInteger(s) ==
    IF s = << >> THEN [found |-> FALSE, value |-> 0]
    ELSE IF IntegerLine(FirstLine(s))
         THEN [found |-> TRUE, value |-> Atoi(SkipWs(FirstLine(s)))]
         ELSE FirstInteger(Drop(s, Len(FirstLine(s)) + 1))

Offset == Len(stdin) - Len(cin.buf)

C28_RetryLoopTerminates == <>(cpc = "done")

Buffer(v) == heap[str[v].m_data]

\* C29: a = a leaves m_data, m_size and every buffer as they were and frees
\* nothing; for distinct a and b, a = b frees a's old buffer once, gives a
\* a new buffer, not b's, with b's contents and m_size, and leaves b as it
\* was; no two BetterString objects in scope ever share a buffer
C29_DeepCopyAssign ==
    /\ [][ Did("CopyAssign") =>
             LET a == last'.dst
                 b == last'.src
                 old == str[a].m_data
                 new == str'[a].m_data
             IN  IF a = b
                 THEN /\ str' = str /\ heap' = heap
                      /\ allocated' = allocated /\ freeCount' = freeCount
                 ELSE /\ old \in allocated /\ old \notin allocated'
                      /\ freeCount[old] = 0 /\ freeCount'[old] = 1
                      /\ \A c \in DOMAIN freeCount \ {old} :
                             freeCount'[c] = freeCount[c]
                      /\ new = Len(heap) + 1 /\ Len(heap') = new
                      /\ new \in allocated' /\ freeCount'[new] = 0
                      /\ new # str[b].m_data
                      /\ heap'[new] = Buffer(b)
                      /\ str'[a].m_size = str[b].m_size
                      /\ str'[b] = str[b]
                      /\ heap'[str[b].m_data] = Buffer(b) ]_vars
    /\ [] /\ \A v, w \in DOMAIN str :
                 v # w => str[v].m_data # str[w].m_data
          /\ \A v \in DOMAIN str :
                 str[v].m_data \in allocated /\ freeCount[str[v].m_data] = 0
          /\ ~ub /\ ~crashed

C29_Witness ==
    /\ last.op = "CopyAssign" /\ last.dst # last.src
    /\ \A o \in {last.dst, last.src} : InScope(o)
    /\ str[last.dst].m_data # str[last.src].m_data
    /\ Buffer(last.dst) = Buffer(last.src)
    /\ CStr(Buffer(last.src)) = <<"J", "i">>
    /\ \E c \in DOMAIN freeCount : freeCount[c] = 1

\* C30: a NaiveString or BetterString destructor that is about to write its
\* trace line reads a buffer that is allocated, the destructor of str1 in
\* Program_01_Naive_String::Run as well as that of str2
C30_DestructorReadsLive ==
    AtStatement("destruct") => str[Current.v].m_data \in allocated
====
